---- MODULE Spec2Model ----
(***************************************************************************)
(* Verification model of the music-box pipeline:                           *)
(*   note_extractor.extract_notes_from_mp3  (per-frame loop, sort, squeeze)*)
(*   ai_note_builder.get_notes_from_text    (oracle response validation)   *)
(*   Cassette._generate_pins_from_notes     (pin layout)                   *)
(*   main.main                              (the session)                  *)
(*                                                                         *)
(* Times and angles are Python floats.  They are modelled as IEEE-754      *)
(* binary64 values: a value is  (-1)^neg * m * 2^e  with m an odd natural  *)
(* number of at most 53 bits (or zero), or NaN.  Every arithmetic          *)
(* operation computes the exact result and rounds it to nearest, ties to   *)
(* even, as the hardware does.  Mantissas are arbitrary-size naturals kept *)
(* as little-endian sequences of limbs.                                    *)
(***************************************************************************)
EXTENDS Integers, Sequences, FiniteSets, TLC

(***************************************************************************)
(* Arbitrary-size naturals (limbs, least significant first, no leading 0). *)
(***************************************************************************)
LimbBits == 13

Base == 2^LimbBits

Max2(a, b) == IF a >= b THEN a ELSE b

Min2(a, b) == IF a <= b THEN a ELSE b

Limb(a, i) == IF i >= 1 /\ i <= Len(a) THEN a[i] ELSE 0

\* a without its leading zero limbs
BigTrim(a) ==
    LET nz == {i \in 1..Len(a) : a[i] # 0}
    IN  IF nz = {} THEN <<>>
        ELSE SubSeq(a, 1, CHOOSE i \in nz : \A j \in nz : j <= i)

RECURSIVE BigCarry(_, _, _)
BigCarry(a, i, c) ==
    IF i > Len(a)
    THEN IF c = 0 THEN <<>> ELSE <<c % Base>> \o BigCarry(a, i, c \div Base)
    ELSE LET v == a[i] + c IN <<v % Base>> \o BigCarry(a, i + 1, v \div Base)

BigFromInt(n) == BigTrim(BigCarry(<<n>>, 1, 0))

BigAdd(a, b) ==
    BigCarry([i \in 1..Max2(Len(a), Len(b)) |-> Limb(a, i) + Limb(b, i)], 1, 0)

RECURSIVE BigBorrow(_, _, _, _)
BigBorrow(a, b, i, br) ==
    IF i > Len(a) THEN <<>>
    ELSE LET v == a[i] - Limb(b, i) - br
         IN  IF v < 0 THEN <<v + Base>> \o BigBorrow(a, b, i + 1, 1)
                      ELSE <<v>> \o BigBorrow(a, b, i + 1, 0)

\* a - b for a >= b
BigSub(a, b) == BigTrim(BigBorrow(a, b, 1, 0))

RECURSIVE BigCmpAt(_, _, _)
BigCmpAt(a, b, i) ==
    IF i = 0 THEN 0
    ELSE IF a[i] < b[i] THEN -1
    ELSE IF a[i] > b[i] THEN 1
    ELSE BigCmpAt(a, b, i - 1)

\* -1, 0, 1 as a < b, a = b, a > b
BigCmp(a, b) ==
    IF Len(a) < Len(b) THEN -1
    ELSE IF Len(a) > Len(b) THEN 1
    ELSE BigCmpAt(a, b, Len(a))

RECURSIVE BigConv(_, _, _, _, _)
BigConv(a, b, k, i, hi) ==
    IF i > hi THEN 0 ELSE a[i] * b[k + 1 - i] + BigConv(a, b, k, i + 1, hi)

BigMul(a, b) ==
    IF a = <<>> \/ b = <<>> THEN <<>>
    ELSE BigTrim(BigCarry(
            [k \in 1..(Len(a) + Len(b) - 1) |->
                BigConv(a, b, k, Max2(1, k + 1 - Len(b)), Min2(Len(a), k))],
            1, 0))

\* a * 2^n
BigShl(a, n) ==
    IF a = <<>> THEN <<>>
    ELSE [i \in 1..(n \div LimbBits) |-> 0]
         \o BigCarry([i \in 1..Len(a) |-> a[i] * 2^(n % LimbBits)], 1, 0)

\* floor(a / 2^n)
BigShr(a, n) ==
    LET q == n \div LimbBits
        r == n % LimbBits
    IN  IF q >= Len(a) THEN <<>>
        ELSE BigTrim([i \in 1..(Len(a) - q) |->
                (a[i + q] \div 2^r) + (Limb(a, i + q + 1) % 2^r) * 2^(LimbBits - r)])

\* a mod 2^n = 0
BigLowZero(a, n) ==
    /\ \A i \in 1..Min2(Len(a), n \div LimbBits) : a[i] = 0
    /\ Limb(a, (n \div LimbBits) + 1) % 2^(n % LimbBits) = 0

\* number of bits of a limb value
BitLen(n) == IF n = 0 THEN 0 ELSE CHOOSE k \in 1..LimbBits : 2^(k - 1) <= n /\ n < 2^k

BigBitLen(a) == IF a = <<>> THEN 0 ELSE LimbBits * (Len(a) - 1) + BitLen(a[Len(a)])

\* bit i (bit 0 is the least significant)
BigBit(a, i) == (Limb(a, (i \div LimbBits) + 1) \div 2^(i % LimbBits)) % 2

\* number of trailing zero bits of a # 0
BigTrailingZeros(a) ==
    LET i == CHOOSE j \in 1..Len(a) : a[j] # 0 /\ \A h \in 1..(j - 1) : a[h] = 0
        k == CHOOSE j \in 0..(LimbBits - 1) : a[i] % 2^j = 0 /\ a[i] % 2^(j + 1) # 0
    IN  LimbBits * (i - 1) + k

\* a * g for a limb value g
BigMulSmall(a, g) == BigTrim(BigCarry([i \in 1..Len(a) |-> a[i] * g], 1, 0))

\* the quotient limb floor(r / d) for r < d * Base and d with its top bit set in
\* its top limb: the estimate from the two top limbs is at most 2 too large
BigDigit(r, d) ==
    LET n   == Len(d)
        est == Min2(Base - 1, (Limb(r, n + 1) * Base + Limb(r, n)) \div d[n])
    IN  IF BigCmp(BigMulSmall(d, est), r) <= 0 THEN est
        ELSE IF BigCmp(BigMulSmall(d, est - 1), r) <= 0 THEN est - 1
        ELSE est - 2

\* Each intermediate result is bound by a quantifier over a one-element set, so
\* that it is computed once.
BigDivDigit(d, q, r2) ==
    CHOOSE out \in { <<(<<g>> \o q), BigSub(r2, BigMulSmall(d, g))>> :
                        g \in {BigDigit(r2, d)} } : TRUE

\* one step of the long division: <<quotient, remainder>> after the limb x
BigDivStep(d, x, qr) ==
    CHOOSE out \in { BigDivDigit(d, qr[1], r2) : r2 \in {BigTrim(<<x>> \o qr[2])} } : TRUE

\* long division, one quotient limb per step, from the top limb down
RECURSIVE BigDivLoop(_, _, _, _)
BigDivLoop(n, d, i, qr) ==
    IF i < 1 THEN qr
    ELSE CHOOSE out \in { BigDivLoop(n, d, i - 1, nqr) :
                            nqr \in {BigDivStep(d, n[i], qr)} } : TRUE

BigDivNorm(n, d) ==
    LET qr == BigDivLoop(n, d, Len(n), <<(<<>>), (<<>>)>>)
    IN  <<BigTrim(qr[1]), qr[2] # <<>>>>

\* <<floor(n / d), (n mod d) # 0>> for d # 0
BigDivMod(n, d) ==
    LET s == LimbBits - BitLen(d[Len(d)])
    IN  CHOOSE out \in { BigDivNorm(n2, d2) :
                            n2 \in {BigShl(n, s)}, d2 \in {BigShl(d, s)} } : TRUE

\* Op(a) and Op(a, b), the arguments evaluated once and before Op
Eval1(Op(_), a) == CHOOSE out \in { Op(x) : x \in {a} } : TRUE

Eval2(Op(_, _), a, b) == CHOOSE out \in { Op(x, y) : x \in {a}, y \in {b} } : TRUE

(***************************************************************************)
(* binary64 values: FMulV, FDivV, ... take values, FMul, FDiv, ... take    *)
(* expressions.                                                            *)
(***************************************************************************)
MantBits == 53

NaN == [nan |-> TRUE, neg |-> FALSE, m |-> <<>>, e |-> 0]

FZero == [nan |-> FALSE, neg |-> FALSE, m |-> <<>>, e |-> 0]

IsZeroV(x) == ~x.nan /\ x.m = <<>>

IsZero(a) == Eval1(IsZeroV, a)

\* the value (-1)^neg * n * 2^e with n of at most MantBits bits, in normal form
FCanon(neg, n, e) ==
    IF n = <<>> THEN FZero
    ELSE LET z == BigTrailingZeros(n)
         IN  [nan |-> FALSE, neg |-> neg, m |-> BigShr(n, z), e |-> e + z]

\* round (-1)^neg * (n + s) * 2^e to nearest, ties to even; 0 < s < 1 iff sticky
FRound(neg, n, e, sticky) ==
    LET len == BigBitLen(n) IN
    IF len <= MantBits THEN FCanon(neg, n, e)
    ELSE LET sh   == len - MantBits
             q    == BigShr(n, sh)
             half == BigBit(n, sh - 1) = 1
             rest == ~BigLowZero(n, sh - 1) \/ sticky
             up   == half /\ (rest \/ BigBit(q, 0) = 1)
         IN  FCanon(neg, IF up THEN BigAdd(q, <<1>>) ELSE q, e + sh)

FromInt(n) == IF n < 0 THEN FCanon(TRUE, BigFromInt(-n), 0) ELSE FCanon(FALSE, BigFromInt(n), 0)

FNegV(x) == IF x.nan \/ x.m = <<>> THEN x ELSE [x EXCEPT !.neg = ~x.neg]

FNeg(a) == Eval1(FNegV, a)

FAbsV(x) == IF x.nan THEN x ELSE [x EXCEPT !.neg = FALSE]

FAbs(a) == Eval1(FAbsV, a)

FMulV(x, y) ==
    IF x.nan \/ y.nan THEN NaN
    ELSE CHOOSE out \in { FRound(x.neg # y.neg, n, x.e + y.e, FALSE) :
                            n \in {BigMul(x.m, y.m)} } : TRUE

FMul(a, b) == Eval2(FMulV, a, b)

\* x / y for y # 0
FDivV(x, y) ==
    IF x.nan \/ y.nan THEN NaN
    ELSE IF x.m = <<>> THEN FZero
    ELSE LET s == Max2(0, MantBits + 2 + BigBitLen(y.m) - BigBitLen(x.m))
         IN  CHOOSE out \in { FRound(x.neg # y.neg, qr[1], x.e - y.e - s, qr[2]) :
                                qr \in {BigDivMod(BigShl(x.m, s), y.m)} } : TRUE

FDiv(a, b) == Eval2(FDivV, a, b)

\* the exact sum <<negative, magnitude>> of (-1)^xn * a and (-1)^yn * b
BigSignedAdd(xn, a, yn, b) ==
    IF xn = yn THEN <<xn, BigAdd(a, b)>>
    ELSE IF BigCmp(a, b) >= 0 THEN <<xn, BigSub(a, b)>>
    ELSE <<yn, BigSub(b, a)>>

FAddV(x, y) ==
    IF x.nan \/ y.nan THEN NaN
    ELSE LET e0 == Min2(x.e, y.e)
         IN  CHOOSE out \in { FRound(sm[1], sm[2], e0, FALSE) :
                sm \in { BigSignedAdd(x.neg, a, y.neg, b) :
                            a \in {BigShl(x.m, x.e - e0)},
                            b \in {BigShl(y.m, y.e - e0)} } } : TRUE

FAdd(a, b) == Eval2(FAddV, a, b)

FSubV(x, y) == FAddV(x, FNegV(y))

FSub(a, b) == Eval2(FSubV, a, b)

\* -1, 0, 1 as |x| < |y|, |x| = |y|, |x| > |y|, for x and y not zero
FMagCmp(x, y) ==
    LET tx == x.e + BigBitLen(x.m)
        ty == y.e + BigBitLen(y.m)
        e0 == Min2(x.e, y.e)
    IN  IF tx < ty THEN -1
        ELSE IF tx > ty THEN 1
        ELSE BigCmp(BigShl(x.m, x.e - e0), BigShl(y.m, y.e - e0))

\* -1, 0, 1 for a negative, zero, positive number
FSign(x) == IF x.m = <<>> THEN 0 ELSE IF x.neg THEN -1 ELSE 1

\* -1, 0, 1 as x < y, x = y, x > y, for numbers
FCmp(x, y) ==
    IF FSign(x) # FSign(y) THEN (IF FSign(x) < FSign(y) THEN -1 ELSE 1)
    ELSE IF FSign(x) = 0 THEN 0
    ELSE FSign(x) * FMagCmp(x, y)

\* the comparisons are FALSE when either side is NaN
FLtV(x, y) == ~x.nan /\ ~y.nan /\ FCmp(x, y) < 0

FLt(a, b) == Eval2(FLtV, a, b)

FLeV(x, y) == ~x.nan /\ ~y.nan /\ FCmp(x, y) <= 0

FLe(a, b) == Eval2(FLeV, a, b)

FGt(a, b) == FLt(b, a)

FGe(a, b) == FLe(b, a)

\* the Python literal with the given decimal digits and `places` decimals
FDec(digits, places) == FDiv(FromInt(digits), FromInt(10^places))

RECURSIVE BigToInt(_, _)
BigToInt(a, i) == IF i > Len(a) THEN 0 ELSE a[i] + Base * BigToInt(a, i + 1)

\* int(x) for a number x: truncation towards zero
FloatToIntV(x) ==
    LET mag == IF x.e >= 0 THEN BigShl(x.m, x.e) ELSE BigShr(x.m, -x.e)
    IN  IF x.neg THEN -BigToInt(mag, 1) ELSE BigToInt(mag, 1)

FloatToInt(a) == Eval1(FloatToIntV, a)

(***************************************************************************)
(* Bounds of the model.                                                    *)
(***************************************************************************)
\* frames of the longest audio stream analysed
MaxFrames == 6

\* frames of an audio stream that carry an onset flag
MaxOnsets == 2

\* the same two bounds for the audio of a session of main.py
SessionFrames == 18

SessionOnsets == 1

\* entries of the 'notes' list of an oracle reply
MaxOracleNotes == 2

\* events of a list handed to the pin layout
MaxLayoutEvents == 3

\* events of a cassette that Cassette.simulate plays
MaxSimulateEvents == 3

\* runs of the pin layout on one event list
MaxRuns == 2

(***************************************************************************)
(* tine.py, mechanism.py: the vocabulary and the rotation time.            *)
(***************************************************************************)
Notes ==
    << "C4", "D4", "E4", "F4", "G4", "A4", "B4", "C5",
       "D5", "E5", "F5", "G5", "A5", "B5", "C6", "D6",
       "E6", "F6" >>

Range(s) == {s[i] : i \in 1..Len(s)}

ROTATION_TIME == FromInt(20)

None == "None"

(***************************************************************************)
(* note_extractor.py: freq_to_note_name.                                   *)
(***************************************************************************)
note_names == << "C", "C#", "D", "D#", "E", "F", "F#", "G", "G#", "A", "A#", "B" >>

\* floor(log2(y)) for y > 0
FloorLog2(y) == y.e + BigBitLen(y.m) - 1

\* int(round(69 + 12 * log2(freq / 440.0))) for freq > 0: with x = freq / 440 it
\* is 69 + j for the j with 2^(2j-1) <= x^24 < 2^(2j+1), and floor(log2(x^24))
\* is 2j-1 or 2j
FSquare(x) == FMulV(x, x)

FCube(x) == FMulV(FMulV(x, x), x)

MidiRounded(freq) ==
    LET x   == FDiv(freq, FromInt(440))
        x8  == Eval1(FSquare, Eval1(FSquare, Eval1(FSquare, x)))
        x24 == Eval1(FCube, x8)
    IN  69 + ((Eval1(FloorLog2, x24) + 1) \div 2)

\* freq_to_note_name that names a frequency of zero or below C4
freq_to_note_name_of_silence(freq) ==
    IF FLe(freq, FZero) THEN "C4"
    ELSE LET midi_rounded == CHOOSE n \in {MidiRounded(freq)} : TRUE
             name         == note_names[(midi_rounded % 12) + 1]
             octave       == (midi_rounded \div 12) - 1
         IN  name \o ToString(octave)

freq_to_note_name(freq) ==
    IF FLe(freq, FZero) THEN None
    ELSE LET midi_rounded == CHOOSE n \in {MidiRounded(freq)} : TRUE
             name         == note_names[(midi_rounded % 12) + 1]
             octave       == (midi_rounded \div 12) - 1
         IN  name \o ToString(octave)

(***************************************************************************)
(* note_extractor.py: extract_notes_from_mp3.                              *)
(***************************************************************************)
frame_size == 512

hop_size == 512

history_size == 3

min_time_between_notes == FDec(15, 2)

pitch_stability_threshold == FromInt(9)

\* sample rates of the decoded audio
SampleRates == {8000}

\* what the two pitch detectors return for a frame, in Hz: <<p1, p2>>
PitchPairs == { <<262, 262>>, <<0, 0>>, <<440, 446>>, <<0, 262>> }

\* line 106: the fused estimate of a frame
FusePitch(p1, p2) ==
    IF FGt(FAbs(FSub(p1, p2)), FromInt(50)) THEN p1
    ELSE FDiv(FAdd(p1, p2), FromInt(2))

\* sum(pitch_history)
RECURSIVE FSum(_, _)
FSum(h, i) == IF i = 0 THEN FZero ELSE FAdd(FSum(h, i - 1), h[i])

\* np.std(h) < threshold, as the variance against the threshold's square
StdBelow(h, threshold) ==
    \E mean \in {FDiv(FSum(h, Len(h)), FromInt(Len(h)))} :
        LET sq == [i \in 1..Len(h) |-> Eval1(FSquare, FSub(h[i], mean))]
        IN  FLt(FDiv(FSum(sq, Len(sq)), FromInt(Len(h))), FMul(threshold, threshold))

\* Candidate that names a pitch outside the vocabulary C4
CandidateSnaps(h) ==
    LET avg_pitch == FDiv(FSum(h, Len(h)), FromInt(Len(h)))
    IN  IF StdBelow(h, pitch_stability_threshold)
        THEN LET note_name == Eval1(freq_to_note_name, avg_pitch)
             IN  IF note_name # None /\ note_name \in Range(Notes)
                 THEN note_name
                 ELSE IF note_name # None THEN "C4" ELSE None
        ELSE None

\* lines 117-122: the vocabulary pitch of a full history, or None
Candidate(h) ==
    LET avg_pitch == FDiv(FSum(h, Len(h)), FromInt(Len(h)))
    IN  IF StdBelow(h, pitch_stability_threshold)
        THEN LET note_name == Eval1(freq_to_note_name, avg_pitch)
             IN  IF note_name # None /\ note_name \in Range(Notes)
                 THEN note_name ELSE None
        ELSE None

\* Python dicts: functions on the set of their keys
EmptyDict == [k \in {} |-> FZero]

\* DictPut with the value stored under every key
DictPutAll(d, k, v) == [x \in (DOMAIN d) \cup {k} |-> v]

DictPut(d, k, v) == [x \in (DOMAIN d) \cup {k} |-> IF x = k THEN v ELSE d[x]]

DictGet(d, k, default) == IF k \in DOMAIN d THEN d[k] ELSE default

\* an optional float argument: <<>> is None, <<x>> is the float x
NoFloat == <<>>

\* Python truth of an optional float: neither None nor zero
Truthy(opt) == opt # NoFloat /\ ~IsZero(opt[1])

\* list.sort(key=lambda x: x[0]): stable, by ascending time
RECURSIVE SortedInsert(_, _)
SortedInsert(s, ev) ==
    IF s = <<>> THEN <<ev>>
    ELSE IF FLt(ev[1], s[Len(s)][1])
         THEN Append(Eval2(SortedInsert, SubSeq(s, 1, Len(s) - 1), ev), s[Len(s)])
         ELSE Append(s, ev)

RECURSIVE SortByTime(_)
SortByTime(s) ==
    IF s = <<>> THEN <<>>
    ELSE Eval2(SortedInsert, SortByTime(SubSeq(s, 1, Len(s) - 1)), s[Len(s)])

\* Squeeze with the scale factor's sign turned
SqueezeNegated(events, squeeze_to) ==
    IF Truthy(squeeze_to) /\ events # <<>>
    THEN LET original_duration == events[Len(events)][1]
         IN  IF FGt(original_duration, FZero)
             THEN CHOOSE scaled \in
                    { [i \in 1..Len(events) |->
                            <<FMul(events[i][1], scale_factor), events[i][2]>>] :
                        scale_factor \in {FNeg(FDiv(squeeze_to[1], original_duration))} } : TRUE
             ELSE events
    ELSE events

\* Squeeze with a scale factor that is held at 1.0 at most
SqueezeClamped(events, squeeze_to) ==
    IF Truthy(squeeze_to) /\ events # <<>>
    THEN LET original_duration == events[Len(events)][1]
         IN  IF FGt(original_duration, FZero)
             THEN CHOOSE scaled \in
                    { [i \in 1..Len(events) |->
                            <<FMul(events[i][1], scale_factor), events[i][2]>>] :
                        scale_factor \in
                            { IF FGt(ratio, FromInt(1)) THEN FromInt(1) ELSE ratio :
                                ratio \in {FDiv(squeeze_to[1], original_duration)} } } : TRUE
             ELSE events
    ELSE events

\* lines 132-137: the squeeze of a sorted event list
Squeeze(events, squeeze_to) ==
    IF Truthy(squeeze_to) /\ events # <<>>
    THEN LET original_duration == events[Len(events)][1]
         IN  IF FGt(original_duration, FZero)
             THEN CHOOSE scaled \in
                    { [i \in 1..Len(events) |->
                            <<FMul(events[i][1], scale_factor), events[i][2]>>] :
                        scale_factor \in {FDiv(squeeze_to[1], original_duration)} } : TRUE
             ELSE events
    ELSE events

\* line 59: the samples left of a stream of file_len samples after
\* audio[: int(max_time * 1000)], a slice in milliseconds
ClampSamples(file_len, rate, seconds) ==
    Min2(file_len, (FloatToInt(FMul(seconds, FromInt(1000))) * rate) \div 1000)

(***************************************************************************)
(* cassette.py: the dimensions Cassette.__init__ sets.                     *)
(***************************************************************************)
cassette_rotation_seconds == FromInt(20)

cassette_radius == FDiv(FromInt(13), FromInt(2))

cassette_total_height == FDec(175, 1)

tine_notes ==
    << "C4", "D4", "E4", "F4", "G4", "A4", "B4", "C5",
       "D5", "E5", "F5", "G5", "A5", "B5", "C6", "D6",
       "E6", "F6" >>

total_tines == Len(tine_notes)

tine_width == FDiv(FromInt(16), FromInt(total_tines))

pin_width == FDiv(tine_width, FromInt(2))

\* pin_height of two tine widths
pin_height_tall == FMul(tine_width, FromInt(2))

pin_height == FDiv(tine_width, FromInt(2))

pin_vertical_offset == FromInt(1)

arc_safety_factor == FDec(12, 1)

base_ring_height == FDec(18, 1)

\* math.pi, the double 884279719003555 * 2^-48
MathPi == [nan |-> FALSE, neg |-> FALSE, m |-> <<1443, 5188, 4058, 1608>>, e |-> -48]

\* math.degrees(x): x * (180.0 / pi)
Degrees(x) == FMul(x, FDiv(FromInt(180), MathPi))

derived_angle_spacing ==
    Degrees(FDiv(FMul(pin_width, arc_safety_factor), cassette_radius))

\* ZPinCenter without the offset of the note's index
ZPinCenterFlat(note_index) ==
    LET z_min          == FAdd(base_ring_height, pin_vertical_offset)
        centre_offset  == FDiv(pin_width, FromInt(2))
    IN  FAdd(z_min, centre_offset)

\* lines 376-377 and 399-401: the lane centre of the note at note_index
ZPinCenter(note_index) ==
    LET z_min          == FAdd(base_ring_height, pin_vertical_offset)
        centre_offset  == FDiv(pin_width, FromInt(2))
        spacing_offset == FMul(tine_width, FromInt(note_index))
    IN  FAdd(FAdd(z_min, spacing_offset), centre_offset)

z_pin_center == [note_index \in 0..(total_tines - 1) |-> ZPinCenter(note_index)]

\* line 402: the bottom of the pin of the note at note_index
ZBottom(note_index) == FSub(ZPinCenter(note_index), FDiv(pin_height, FromInt(2)))

z_bottom == [note_index \in 0..(total_tines - 1) |-> ZBottom(note_index)]

\* list.index: the 0-based position of the first x in s
IndexOf(s, x) == (CHOOSE i \in 1..Len(s) : s[i] = x /\ \A j \in 1..(i - 1) : s[j] # x) - 1

\* AngleDeg with half a turn for a full one
AngleDegHalfTurn(time_sec, rotation_seconds) ==
    FMul(FDiv(time_sec, rotation_seconds), FromInt(180))

\* line 388: the angle of an event at time_sec
AngleDeg(time_sec, rotation_seconds) ==
    FMul(FDiv(time_sec, rotation_seconds), FromInt(360))

\* Overlaps with the test against the wrong side of the spacing
OverlapsFlipped(angles, note_name, angle_deg, spacing) ==
    /\ note_name \in DOMAIN angles
    /\ FGt(FAbs(FSub(angle_deg, angles[note_name])), spacing)

\* lines 391-396: the event's pin would overlap the last pin of its note
Overlaps(angles, note_name, angle_deg, spacing) ==
    /\ note_name \in DOMAIN angles
    /\ FLt(FAbs(FSub(angle_deg, angles[note_name])), spacing)

\* lines 399-421: the pin of an event that is placed
PinOf(note_name, angle_deg) ==
    [ angle_deg    |-> angle_deg,
      note_name    |-> note_name,
      note_index   |-> IndexOf(tine_notes, note_name),
      z_pin_center |-> z_pin_center[IndexOf(tine_notes, note_name)] ]

(***************************************************************************)
(* cassette.py: Cassette._extract_notes_from_mp3, the extractor built into *)
(* the Cassette class.                                                     *)
(***************************************************************************)
\* lines 95-112: Cassette.freq_to_note_name
Cassette_freq_to_note_name(freq) ==
    IF FLe(freq, FZero) THEN None
    ELSE LET midi_rounded == CHOOSE n \in {MidiRounded(freq)} : TRUE
             name         == note_names[(midi_rounded % 12) + 1]
             octave       == (midi_rounded \div 12) - 1
         IN  name \o ToString(octave)

\* lines 326-329: the fused estimate of a frame
CassetteFusePitch(pitch1, pitch2) ==
    IF FLt(FAbs(FSub(pitch1, pitch2)), FromInt(50))
    THEN FDiv(FAdd(pitch1, pitch2), FromInt(2))
    ELSE IF FGt(pitch1, FZero) THEN pitch1 ELSE pitch2

\* CassetteMinTime with half the time the angular spacing stands for
CassetteMinTimeHalved(angle_spacing) ==
    FDiv(FMul(FDiv(angle_spacing, FromInt(360)), cassette_rotation_seconds), FromInt(2))

\* line 306: the minimal time between two events of a pitch
CassetteMinTime(angle_spacing) ==
    FMul(FDiv(angle_spacing, FromInt(360)), cassette_rotation_seconds)

\* line 341: the bound on the history's standard deviation, in Hz
cassette_stability_threshold == FromInt(10)

\* lines 338-343: the vocabulary pitch of a full history, or None
CassetteCandidate(h) ==
    LET avg_pitch == FDiv(FSum(h, Len(h)), FromInt(Len(h)))
    IN  IF StdBelow(h, cassette_stability_threshold)
        THEN LET note_name == Eval1(Cassette_freq_to_note_name, avg_pitch)
             IN  IF note_name # None /\ note_name \in Range(tine_notes)
                 THEN note_name ELSE None
        ELSE None

\* lines 344-345: whether a candidate at frame_time passes the spacing filter
CassetteSpacingOk(times, note_name, frame_time, min_time) ==
    LET last_time == DictGet(times, note_name, FNeg(min_time))
    IN  FGe(FSub(frame_time, last_time), min_time)

\* the vocabulary in the order of Python's comparison of str
str_order ==
    << "A4", "A5", "B4", "B5", "C4", "C5", "C6", "D4", "D5",
       "D6", "E4", "E5", "E6", "F4", "F5", "F6", "G4", "G5" >>

\* a < b for two (time, name) tuples
TupleLt(a, b) ==
    \/ FLt(a[1], b[1])
    \/ /\ FCmp(a[1], b[1]) = 0
       /\ IndexOf(str_order, a[2]) < IndexOf(str_order, b[2])

\* line 351: note_events.sort(), stable, by ascending tuple
RECURSIVE TupleSortedInsert(_, _)
TupleSortedInsert(s, ev) ==
    IF s = <<>> THEN <<ev>>
    ELSE IF TupleLt(ev, s[Len(s)])
         THEN Append(Eval2(TupleSortedInsert, SubSeq(s, 1, Len(s) - 1), ev), s[Len(s)])
         ELSE Append(s, ev)

RECURSIVE SortTuples(_)
SortTuples(s) ==
    IF s = <<>> THEN <<>>
    ELSE Eval2(TupleSortedInsert, SortTuples(SubSeq(s, 1, Len(s) - 1)), s[Len(s)])

(***************************************************************************)
(* ai_note_builder.py: get_notes_from_text.                                *)
(* A JSON value is a record: kind is "int", "float", "bool", "str", "null" *)
(* or "list"; num is the value of a number (True is 1, False is 0), str    *)
(* the characters of a string, items the elements of a list.               *)
(***************************************************************************)
JNum(kind, num) == [kind |-> kind, num |-> num, str |-> "", items |-> <<>>]

JStr(str) == [kind |-> "str", num |-> FZero, str |-> str, items |-> <<>>]

JNull == [kind |-> "null", num |-> FZero, str |-> "", items |-> <<>>]

JList(items) == [kind |-> "list", num |-> FZero, str |-> "", items |-> items]

\* line 99: set(available_notes), the names of sorted(Tine().notes)
valid_notes == Range(Notes)

\* isinstance(v, (int, float)): bool is a subclass of int
IsIntOrFloat(v) == v.kind \in {"int", "float", "bool"}

\* lines 101-108: the event makes the validation loop raise ValueError
EventRaises(event, duration) ==
    \/ event.kind # "list"
    \/ Len(event.items) # 2
    \/ ~IsIntOrFloat(event.items[1])
    \/ event.items[2].kind # "str"
    \/ event.items[2].str \notin valid_notes
    \/ FLt(event.items[1].num, FZero)
    \/ FGt(event.items[1].num, duration)

\* an accepted [time, name] list as the pair main's consumers unpack
EventPair(event) == <<event.items[1].num, event.items[2].str>>

\* lines 65-114, from the reply of the API call on: a reply is a record with
\* raised (the call raised), text_ends_brace (response.strip().endswith('}')),
\* parsed (<<>> when json.loads raises, else <<the object>>); the object has
\* has_notes ('notes' is a key) and notes (the value at 'notes')
get_notes_from_text(response, duration) ==
    IF response.raised THEN <<>>
    ELSE IF ~response.text_ends_brace THEN <<>>
    ELSE IF response.parsed = <<>> THEN <<>>
    ELSE LET parsed == response.parsed[1]
         IN  IF ~parsed.has_notes THEN <<>>
             ELSE IF parsed.notes.kind # "list" THEN <<>>
             ELSE IF \E i \in 1..Len(parsed.notes.items) :
                        EventRaises(parsed.notes.items[i], duration)
                  THEN <<>>
                  ELSE [i \in 1..Len(parsed.notes.items) |->
                            EventPair(parsed.notes.items[i])]

(***************************************************************************)
(* note_player.py: simulate_notes.                                         *)
(***************************************************************************)
sample_rate == 44100

\* note_player.py line 29: the samples of one tone of 250 ms
tone_samples == (sample_rate * 250) \div 1000

\* the elements of a set of integers in ascending order
RECURSIVE SortedInts(_)
SortedInts(S) ==
    IF S = {} THEN <<>>
    ELSE LET least == CHOOSE x \in S : \A y \in S : x <= y
         IN  <<least>> \o SortedInts(S \ {least})

\* names[i] for the i with pos[i] = p, in order
RECURSIVE SelectAt(_, _, _)
SelectAt(pos, names, p) ==
    IF pos = <<>> THEN <<>>
    ELSE (IF Head(pos) = p THEN <<Head(names)>> ELSE <<>>)
            \o SelectAt(Tail(pos), Tail(names), p)

NotPlayed == [returned |-> "early", stream_opened |-> FALSE, chords |-> <<>>]

\* lines 105-176: what one call does: returns early on an empty list, raises
\* where int() or the buffer addition raises, else mixes the chords at their
\* sample positions in ascending order and opens the output stream
simulate_notes(events, total_duration) ==
    IF events = <<>> THEN NotPlayed
    ELSE IF \E i \in 1..Len(events) : events[i][1].nan
         THEN [returned |-> "raised", stream_opened |-> FALSE, chords |-> <<>>]
    ELSE LET total_samples == FloatToInt(FMul(FromInt(sample_rate), total_duration))
             sample_pos == [i \in 1..Len(events) |->
                              FloatToInt(FMul(events[i][1], FromInt(sample_rate)))]
             names      == [i \in 1..Len(events) |-> events[i][2]]
             keys       == SortedInts(Range(sample_pos))
         IN  IF \E i \in 1..Len(events) :
                    /\ sample_pos[i] > total_samples
                    /\ sample_pos[i] < total_samples + tone_samples
             THEN [returned |-> "raised", stream_opened |-> FALSE, chords |-> <<>>]
             ELSE [returned |-> "complete", stream_opened |-> TRUE,
                   chords |-> [k \in 1..Len(keys) |->
                                <<keys[k], SelectAt(sample_pos, names, keys[k])>>]]

(***************************************************************************)
(* note_player.py: note_to_freq.                                           *)
(***************************************************************************)
\* lines 16-19: <<semitone_index, octave>> of a name that is a note of
\* note_names followed by one digit
ParseNote(note_name) ==
    CHOOSE parsed \in (0..(Len(note_names) - 1)) \X (0..9) :
        note_names[parsed[1] + 1] \o ToString(parsed[2]) = note_name

\* line 20: the exponent of 2 in 440.0 * 2 ** ((octave - 4) + (semitone_index - 9) / 12),
\* in twelfths; the frequency is strictly increasing in it
NoteToFreqTwelfths(note_name) ==
    LET parsed == ParseNote(note_name)
    IN  12 * (parsed[2] - 4) + (parsed[1] - 9)

(***************************************************************************)
(* note_player.py, cassette.py: note_to_freq.                              *)
(***************************************************************************)
\* line 20 for octave 4: the doubles 440.0 * 2 ** ((semitone_index - 9) / 12) of
\* the twelve names of note_names
octave4_freqs ==
    <<
       [nan |-> FALSE, neg |-> FALSE, m |-> <<7339, 778, 74, 4186>>, e |-> -43],   \* C4: 261.6255653005986
       [nan |-> FALSE, neg |-> FALSE, m |-> <<3695, 5036, 6915, 677, 1>>, e |-> -44],   \* C#4: 277.1826309768721
       [nan |-> FALSE, neg |-> FALSE, m |-> <<2849, 7544, 2232, 1205, 1>>, e |-> -44],   \* D4: 293.6647679174076
       [nan |-> FALSE, neg |-> FALSE, m |-> <<5593, 42, 130, 2489>>, e |-> -42],   \* D#4: 311.1269837220809
       [nan |-> FALSE, neg |-> FALSE, m |-> <<4731, 2288, 670, 2356, 1>>, e |-> -44],   \* E4: 329.6275569128699
       [nan |-> FALSE, neg |-> FALSE, m |-> <<4783, 3073, 6765, 2793>>, e |-> -42],   \* F4: 349.2282314330039
       [nan |-> FALSE, neg |-> FALSE, m |-> <<3561, 7760, 6729, 3647, 1>>, e |-> -44],   \* F#4: 369.9944227116344
       [nan |-> FALSE, neg |-> FALSE, m |-> <<3583, 4669, 6995, 4351, 1>>, e |-> -44],   \* G4: 391.99543598174927
       [nan |-> FALSE, neg |-> FALSE, m |-> <<2119, 2631, 7169, 6644>>, e |-> -43],   \* G#4: 415.3046975799451
       [nan |-> FALSE, neg |-> FALSE, m |-> <<55>>, e |-> 3],   \* A4: 440.0
       [nan |-> FALSE, neg |-> FALSE, m |-> <<1105, 4503, 5080, 7458>>, e |-> -43],   \* A#4: 466.1637615180899
       [nan |-> FALSE, neg |-> FALSE, m |-> <<7309, 509, 1088, 7902>>, e |-> -43]    \* B4: 493.8833012561241
    >>

\* note_to_freq an octave too high
note_to_freq_octave_up(note_name) ==
    LET parsed == ParseNote(note_name)
        at4    == octave4_freqs[parsed[1] + 1]
    IN  {[at4 EXCEPT !.e = at4.e + (parsed[2] - 3)]}

\* note_player.py lines 12-20: note_to_freq. The power 2 ** x is the C library's:
\* the result is the double of octave 4 times 2 ** (octave - 4), or a double
\* next to it
note_to_freq(note_name) ==
    LET parsed == ParseNote(note_name)
        at4    == octave4_freqs[parsed[1] + 1]
        freq   == [at4 EXCEPT !.e = at4.e + (parsed[2] - 4)]
        ulp    == [nan |-> FALSE, neg |-> FALSE, m |-> <<1>>, e |-> FloorLog2(freq) - (MantBits - 1)]
    IN  {FSub(freq, ulp), freq, FAdd(freq, ulp)}

\* cassette.py lines 33-40: Cassette.note_to_freq, the same expression with 440
\* for 440.0
Cassette_note_to_freq(note_name) ==
    LET parsed == ParseNote(note_name)
        at4    == octave4_freqs[parsed[1] + 1]
        freq   == [at4 EXCEPT !.e = at4.e + (parsed[2] - 4)]
        ulp    == [nan |-> FALSE, neg |-> FALSE, m |-> <<1>>, e |-> FloorLog2(freq) - (MantBits - 1)]
    IN  {FSub(freq, ulp), freq, FAdd(freq, ulp)}

(***************************************************************************)
(* ai_note_builder.py: the vocabulary as the prompt lists it.              *)
(***************************************************************************)
\* the code points of the characters of a name that is a note of note_names
\* followed by one digit: 'A'..'G' are 65..71, '#' is 35, '0'..'9' are 48..57
CodePoints(note_name) ==
    LET parsed == ParseNote(note_name)
        chars  == << <<67>>, <<67, 35>>, <<68>>, <<68, 35>>, <<69>>, <<70>>,
                     <<70, 35>>, <<71>>, <<71, 35>>, <<65>>, <<65, 35>>, <<66>> >>
    IN  Append(chars[parsed[1] + 1], 48 + parsed[2])

\* a < b for two str, given by their code points: the comparison of sorted()
RECURSIVE StrLt(_, _)
StrLt(a, b) ==
    IF b = <<>> THEN FALSE
    ELSE IF a = <<>> THEN TRUE
    ELSE IF Head(a) # Head(b) THEN Head(a) < Head(b)
    ELSE StrLt(Tail(a), Tail(b))

\* line 25: sorted(Tine().notes), the names in ascending order of str; name i
\* of the result has i - 1 names below it
available_notes ==
    [i \in 1..Len(Notes) |->
        CHOOSE n \in Range(Notes) :
            Cardinality({m \in Range(Notes) : StrLt(CodePoints(m), CodePoints(n))}) = i - 1]

VARIABLES
    pc,                   \* where the program is
    sr,                   \* audio.frame_rate
    n_samples,            \* len(raw_data)
    max_time,             \* argument of extract_notes_from_mp3
    squeeze_to_duration,  \* argument of extract_notes_from_mp3 (optional)
    start_idx,            \* the frame loop's variable
    pitch_history,        \* rolling history of fused estimates
    last_note_time,       \* pitch -> time of its last accepted event
    onsets,               \* onset flags met so far
    frame,                \* <<>>, or <<the detectors' outputs for the frame last analysed>>
    sorted_events,        \* note_events after line 129, before the squeeze
    note_events,          \* the event list being built, then the producer's result
    response,             \* <<>>, or <<the reply the oracle gave>>
    min_note_angle_spacing, \* the cassette's field of that name
    idx,                  \* position of the layout loop in note_events
    last_note_angle,      \* note_name -> angle of its last pin
    pins,                 \* the pins placed by the running or last layout
    run,                  \* layout runs started so far
    prev_pins,            \* the pins of the layout run before this one
    exports,              \* the files exported so far
    playback,             \* <<>>, or <<what simulate_notes did>>
    helper,               \* the last calls of note_to_freq and freq_to_note_name
    sim                   \* Cassette.simulate: idx, the seconds since start_time,
                          \* the events played and whether the loop has seen
                          \* elapsed > cassette_rotation_seconds

exVars == <<sr, n_samples, max_time, squeeze_to_duration, start_idx,
            pitch_history, last_note_time, onsets, frame, sorted_events>>

layVars == <<min_note_angle_spacing, idx, last_note_angle, pins, run, prev_pins>>

mainVars == <<response, exports, playback, sim, helper>>

vars == <<pc, exVars, note_events, layVars, mainVars>>

\* the call extract_notes_from_mp3(mp3_path, max_time=seconds, squeeze_to_duration=target)
\* on a file of file_len samples at the given rate: the state before the frame loop
CallExtract(rate, file_len, seconds, target) ==
    /\ pc' = "extract"
    /\ sr' = rate
    /\ n_samples' = ClampSamples(file_len, rate, seconds)
    /\ max_time' = seconds
    /\ squeeze_to_duration' = target
    /\ start_idx' = 0
    /\ pitch_history' = <<>>
    /\ last_note_time' = EmptyDict
    /\ onsets' = 0
    /\ frame' = <<>>
    /\ sorted_events' = <<>>
    /\ note_events' = <<>>
    /\ UNCHANGED <<layVars, mainVars>>

\* ExtractReturn with a sort that turns the list round
ExtractReturnReversed(events) ==
    /\ pc' = "returned"
    /\ \E sorted \in {[i \in 1..Len(events) |-> events[Len(events) + 1 - i]]} :
         /\ sorted_events' = sorted
         /\ note_events' = Squeeze(sorted, squeeze_to_duration)
    /\ UNCHANGED <<sr, n_samples, max_time, squeeze_to_duration, start_idx,
                   pitch_history, last_note_time, onsets, frame, layVars, mainVars>>

\* lines 129-141: after the loop, sort, squeeze and return
ExtractReturn(events) ==
    /\ pc' = "returned"
    /\ \E sorted \in {SortByTime(events)} :
         /\ sorted_events' = sorted
         /\ note_events' = Squeeze(sorted, squeeze_to_duration)
    /\ UNCHANGED <<sr, n_samples, max_time, squeeze_to_duration, start_idx,
                   pitch_history, last_note_time, onsets, frame, layVars, mainVars>>

\* PushHistory that never drops the oldest estimate
PushHistoryKeepsAll(h, pitch) == Append(h, pitch)

\* lines 111-114: append to the rolling history
PushHistory(h, pitch) ==
    IF Len(h) + 1 > history_size THEN Tail(Append(h, pitch)) ELSE Append(h, pitch)

\* SpacingOk with the pitch's last accepted time never looked up
SpacingOkIgnoresLast(times, note_name, frame_time) ==
    FGe(FSub(frame_time, FNeg(min_time_between_notes)), min_time_between_notes)

\* lines 124-125: whether a candidate at frame_time passes the spacing filter
SpacingOk(times, note_name, frame_time) ==
    LET last_t == DictGet(times, note_name, FNeg(min_time_between_notes))
    IN  FGe(FSub(frame_time, last_t), min_time_between_notes)

\* ExtractFrame with the last accepted time set by a rejected candidate too
ExtractFrameMarksRejected(pp, is_onset) ==
    /\ pc = "extract"
    /\ start_idx < n_samples - frame_size
    /\ \E frame_time \in {FDiv(FromInt(start_idx), FromInt(sr))},
          history \in {PushHistory(pitch_history, FusePitch(FromInt(pp[1]), FromInt(pp[2])))} :
       \E note_name \in {IF is_onset /\ Len(history) = history_size
                          THEN Candidate(history) ELSE None} :
           IF FGt(frame_time, max_time)
           THEN ExtractReturn(note_events)
           ELSE /\ pitch_history' = history
                /\ onsets' = IF is_onset THEN onsets + 1 ELSE onsets
                /\ frame' = <<[p1 |-> pp[1], p2 |-> pp[2], is_onset |-> is_onset]>>
                /\ start_idx' = start_idx + hop_size
                /\ IF note_name # None
                   THEN /\ last_note_time' = DictPut(last_note_time, note_name, frame_time)
                        /\ IF SpacingOk(last_note_time, note_name, frame_time)
                           THEN note_events' = Append(note_events, <<frame_time, note_name>>)
                           ELSE UNCHANGED note_events
                   ELSE UNCHANGED <<note_events, last_note_time>>
                /\ UNCHANGED <<pc, sr, n_samples, max_time, squeeze_to_duration,
                               sorted_events, layVars, mainVars>>

\* lines 97-127: one iteration of the frame loop, the detectors returning pp and is_onset
ExtractFrame(pp, is_onset) ==
    /\ pc = "extract"
    /\ start_idx < n_samples - frame_size
    /\ \E frame_time \in {FDiv(FromInt(start_idx), FromInt(sr))},
          history \in {PushHistory(pitch_history, FusePitch(FromInt(pp[1]), FromInt(pp[2])))} :
       \E note_name \in {IF is_onset /\ Len(history) = history_size
                          THEN Candidate(history) ELSE None} :
           IF FGt(frame_time, max_time)
           THEN ExtractReturn(note_events)
           ELSE /\ pitch_history' = history
                /\ onsets' = IF is_onset THEN onsets + 1 ELSE onsets
                /\ frame' = <<[p1 |-> pp[1], p2 |-> pp[2], is_onset |-> is_onset]>>
                /\ start_idx' = start_idx + hop_size
                /\ IF note_name # None /\ SpacingOk(last_note_time, note_name, frame_time)
                   THEN /\ note_events' = Append(note_events, <<frame_time, note_name>>)
                        /\ last_note_time' = DictPut(last_note_time, note_name, frame_time)
                   ELSE UNCHANGED <<note_events, last_note_time>>
                /\ UNCHANGED <<pc, sr, n_samples, max_time, squeeze_to_duration,
                               sorted_events, layVars, mainVars>>

\* the frame loop is exhausted: lines 129-141
ExtractFinish ==
    /\ pc = "extract"
    /\ start_idx >= n_samples - frame_size
    /\ ExtractReturn(note_events)

(***************************************************************************)
(* cassette.py: Cassette._extract_notes_from_mp3, as Cassette.__init__     *)
(* calls it.                                                               *)
(***************************************************************************)
\* lines 173, 250-310: the call with max_time = cassette_rotation_seconds on a
\* file of file_len samples at the given rate: the state before the frame loop;
\* the caller says what the cassette's field min_note_angle_spacing holds
CassetteCallExtract(rate, file_len) ==
    /\ pc' = "cassette_extract"
    /\ sr' = rate
    /\ n_samples' = ClampSamples(file_len, rate, cassette_rotation_seconds)
    /\ max_time' = cassette_rotation_seconds
    /\ squeeze_to_duration' = NoFloat
    /\ start_idx' = 0
    /\ pitch_history' = <<>>
    /\ last_note_time' = EmptyDict
    /\ onsets' = 0
    /\ frame' = <<>>
    /\ sorted_events' = <<>>
    /\ note_events' = <<>>
    /\ UNCHANGED <<idx, last_note_angle, pins, run, prev_pins, mainVars>>

\* lines 351-362: after the loop, sort and return
CassetteExtractReturn(events) ==
    /\ pc' = "returned"
    /\ \E sorted \in {SortTuples(events)} :
         /\ sorted_events' = sorted
         /\ note_events' = sorted
    /\ UNCHANGED <<sr, n_samples, max_time, squeeze_to_duration, start_idx,
                   pitch_history, last_note_time, onsets, frame, layVars, mainVars>>

\* lines 312-348: one iteration of the frame loop, the detectors returning pp and is_onset
CassetteExtractFrame(pp, is_onset) ==
    /\ pc = "cassette_extract"
    /\ start_idx < n_samples - frame_size
    /\ \E frame_time \in {FDiv(FromInt(start_idx), FromInt(sr))},
          history \in {PushHistory(pitch_history,
                                   CassetteFusePitch(FromInt(pp[1]), FromInt(pp[2])))},
          min_time \in {CassetteMinTime(min_note_angle_spacing)} :
       \E note_name \in {IF is_onset /\ Len(history) = history_size
                          THEN CassetteCandidate(history) ELSE None} :
           IF FGt(frame_time, max_time)
           THEN CassetteExtractReturn(note_events)
           ELSE /\ pitch_history' = history
                /\ onsets' = IF is_onset THEN onsets + 1 ELSE onsets
                /\ frame' = <<[p1 |-> pp[1], p2 |-> pp[2], is_onset |-> is_onset]>>
                /\ start_idx' = start_idx + hop_size
                /\ IF /\ note_name # None
                      /\ CassetteSpacingOk(last_note_time, note_name, frame_time, min_time)
                   THEN /\ note_events' = Append(note_events, <<frame_time, note_name>>)
                        /\ last_note_time' = DictPut(last_note_time, note_name, frame_time)
                   ELSE UNCHANGED <<note_events, last_note_time>>
                /\ UNCHANGED <<pc, sr, n_samples, max_time, squeeze_to_duration,
                               sorted_events, layVars, mainVars>>

\* the frame loop is exhausted: lines 351-362
CassetteExtractFinish ==
    /\ pc = "cassette_extract"
    /\ start_idx >= n_samples - frame_size
    /\ CassetteExtractReturn(note_events)

(***************************************************************************)
(* cassette.py: Cassette._generate_pins_from_notes, one action per step.   *)
(***************************************************************************)
\* LayoutStart with the last-angle map kept from the run before
LayoutStartStale ==
    /\ pc = "returned"
    /\ run' = run + 1
    /\ pins' = <<>>
    /\ IF note_events = <<>>
       THEN /\ pc' = "layout_done"
            /\ UNCHANGED <<idx, last_note_angle>>
       ELSE /\ pc' = "layout"
            /\ idx' = 1
            /\ UNCHANGED last_note_angle
    /\ UNCHANGED <<exVars, note_events, min_note_angle_spacing, prev_pins, mainVars>>

\* lines 370-380: the empty guard, or the state before the loop
LayoutStart ==
    /\ pc = "returned"
    /\ run' = run + 1
    /\ pins' = <<>>
    /\ IF note_events = <<>>
       THEN /\ pc' = "layout_done"
            /\ UNCHANGED <<idx, last_note_angle>>
       ELSE /\ pc' = "layout"
            /\ idx' = 1
            /\ last_note_angle' = EmptyDict
    /\ UNCHANGED <<exVars, note_events, min_note_angle_spacing, prev_pins, mainVars>>

\* LayoutStep with the last angle of a pitch set by every event of the pitch
LayoutStepTracksSeen ==
    /\ pc = "layout"
    /\ idx <= Len(note_events)
    /\ idx' = idx + 1
    /\ LET time_sec  == note_events[idx][1]
           note_name == note_events[idx][2]
       IN  IF note_name \notin Range(tine_notes)
           THEN UNCHANGED <<pins, last_note_angle>>
           ELSE \E angle_deg \in {AngleDeg(time_sec, cassette_rotation_seconds)} :
                  /\ last_note_angle' = DictPut(last_note_angle, note_name, angle_deg)
                  /\ IF Overlaps(last_note_angle, note_name, angle_deg, min_note_angle_spacing)
                     THEN UNCHANGED pins
                     ELSE pins' = Append(pins, PinOf(note_name, angle_deg))
    /\ UNCHANGED <<pc, exVars, note_events, min_note_angle_spacing, run, prev_pins, mainVars>>

\* lines 382-421: one iteration of the loop over the events
LayoutStep ==
    /\ pc = "layout"
    /\ idx <= Len(note_events)
    /\ idx' = idx + 1
    /\ LET time_sec  == note_events[idx][1]
           note_name == note_events[idx][2]
       IN  IF note_name \notin Range(tine_notes)
           THEN UNCHANGED <<pins, last_note_angle>>
           ELSE \E angle_deg \in {AngleDeg(time_sec, cassette_rotation_seconds)} :
                  IF Overlaps(last_note_angle, note_name, angle_deg, min_note_angle_spacing)
                  THEN UNCHANGED <<pins, last_note_angle>>
                  ELSE /\ pins' = Append(pins, PinOf(note_name, angle_deg))
                       /\ last_note_angle' = DictPut(last_note_angle, note_name, angle_deg)
    /\ UNCHANGED <<pc, exVars, note_events, min_note_angle_spacing, run, prev_pins, mainVars>>

\* line 423: the loop is exhausted
LayoutReturn ==
    /\ pc = "layout"
    /\ idx > Len(note_events)
    /\ pc' = "layout_done"
    /\ UNCHANGED <<exVars, note_events, layVars, mainVars>>

(***************************************************************************)
(* The state before anything has run.                                      *)
(***************************************************************************)
Blank ==
    /\ sr = 0 /\ n_samples = 0 /\ max_time = FZero /\ squeeze_to_duration = NoFloat
    /\ start_idx = 0 /\ pitch_history = <<>> /\ last_note_time = EmptyDict
    /\ onsets = 0 /\ frame = <<>> /\ sorted_events = <<>>
    /\ response = <<>>
    /\ idx = 0 /\ last_note_angle = EmptyDict /\ pins = <<>> /\ run = 0 /\ prev_pins = <<>>
    /\ exports = <<>> /\ playback = <<>>
    /\ sim = [idx |-> 0, clock |-> FZero, played |-> <<>>, over |-> FALSE]
    /\ helper = [copy |-> None, note_name |-> None, freq |-> FZero, name |-> None]

\* all sequences over S of length at most n
SeqsUpTo(S, n) == UNION { [1..k -> S] : k \in 0..n }

(***************************************************************************)
(* main.py: one session of the command line tool.                          *)
(***************************************************************************)
\* values of --squeeze-time
SqueezeTimes == {NoFloat, <<FZero>>, <<FromInt(30)>>}

\* what the two pitch detectors return for a frame of the input file
SessionPitchPairs == { <<262, 262>>, <<0, 0>> }

\* lengths of the input file's audio, in samples
SessionLens == {frame_size, (SessionFrames + 1) * frame_size}

\* [time, name] entries of the oracle's replies, and entries that are no such pair
OracleEvents ==
    { JList(<<JNum("float", FZero), JStr("C4")>>),
      JList(<<JNum("float", FDec(5, 2)), JStr("C4")>>),
      JList(<<JNum("float", FDec(4, 1)), JStr("E5")>>),
      JList(<<JNum("int", FromInt(20)), JStr("F6")>>),
      JList(<<JNum("float", NaN), JStr("C4")>>),
      JList(<<JNum("bool", FromInt(1)), JStr("D4")>>),
      JList(<<JNum("float", FDec(4, 1)), JStr("C#4")>>),
      JList(<<JNum("float", FromInt(-1)), JStr("C4")>>),
      JList(<<JNum("float", FDec(205, 1)), JStr("C4")>>),
      JList(<<JStr("0.4"), JStr("C4")>>),
      JList(<<JNum("float", FDec(4, 1)), JNum("int", FromInt(5))>>),
      JList(<<JNum("float", FDec(4, 1))>>),
      JNull }

\* a reply that is a JSON object
ObjectReply(has_notes, notes) ==
    [raised |-> FALSE, text_ends_brace |-> TRUE,
     parsed |-> <<[has_notes |-> has_notes, notes |-> notes]>>]

\* the replies of the oracle: the API call raising, a truncated text, a text
\* json.loads rejects, an object without 'notes', with a 'notes' that is no
\* list, and with a 'notes' list
OracleReplies ==
    { [raised |-> TRUE, text_ends_brace |-> FALSE, parsed |-> <<>>],
      [raised |-> FALSE, text_ends_brace |-> FALSE, parsed |-> <<>>],
      [raised |-> FALSE, text_ends_brace |-> TRUE, parsed |-> <<>>],
      ObjectReply(FALSE, JNull),
      ObjectReply(TRUE, JStr("C4")),
      ObjectReply(TRUE, JNull) }
    \cup { ObjectReply(TRUE, JList(items)) : items \in SeqsUpTo(OracleEvents, MaxOracleNotes) }

Init == pc = "main" /\ note_events = <<>> /\ min_note_angle_spacing = derived_angle_spacing /\ Blank

\* lines 30-33: neither or both of --input-file and --input-text
MainUsageError ==
    /\ pc = "main"
    /\ pc' = "usage_error"
    /\ UNCHANGED <<exVars, note_events, layVars, mainVars>>

\* lines 40-45: the call of the extractor
MainExtract ==
    /\ pc = "main"
    /\ \E rate \in SampleRates, len \in SessionLens, squeeze_time \in SqueezeTimes :
         CallExtract(rate, len,
                     IF Truthy(squeeze_time) THEN squeeze_time[1] ELSE ROTATION_TIME,
                     IF Truthy(squeeze_time) THEN <<ROTATION_TIME>> ELSE NoFloat)

\* the frame loop of the session's extraction
MainExtractFrame ==
    \E pp \in SessionPitchPairs, is_onset \in BOOLEAN :
        /\ is_onset => onsets < SessionOnsets
        /\ ExtractFrame(pp, is_onset)

\* lines 46-47: the call of the oracle, which replies
MainOracle ==
    /\ pc = "main"
    /\ \E reply \in OracleReplies :
         /\ response' = <<reply>>
         /\ note_events' = get_notes_from_text(reply, ROTATION_TIME)
    /\ pc' = "returned"
    /\ UNCHANGED <<exVars, layVars, exports, playback, sim, helper>>

\* line 50: CassetteCAD(note_events=note_events, rotation_duration=ROTATION_TIME),
\* the pin layout of the cassette
CassetteCAD == LayoutStart \/ LayoutStep \/ LayoutReturn

\* line 51
ExportCassette ==
    /\ pc = "layout_done"
    /\ exports' = Append(exports, "cassette.stl")
    /\ pc' = "cassette_exported"
    /\ UNCHANGED <<exVars, note_events, layVars, response, playback, sim, helper>>

\* lines 54-55
ExportSpindle ==
    /\ pc = "cassette_exported"
    /\ exports' = Append(exports, "spindle.stl")
    /\ pc' = "spindle_exported"
    /\ UNCHANGED <<exVars, note_events, layVars, response, playback, sim, helper>>

\* Playback without the test of note_events
PlaybackUnguarded(simulate) ==
    /\ pc = "spindle_exported"
    /\ IF simulate
       THEN \E done \in {simulate_notes(note_events, ROTATION_TIME)} :
              /\ playback' = <<done>>
              /\ pc' = IF done.returned = "raised" THEN "raised" ELSE "done"
       ELSE /\ playback' = <<>>
            /\ pc' = "done"
    /\ UNCHANGED <<exVars, note_events, layVars, response, exports, sim, helper>>

\* lines 58-60, under the --simulate/--no-simulate flag
Playback(simulate) ==
    /\ pc = "spindle_exported"
    /\ IF simulate /\ note_events # <<>>
       THEN \E done \in {simulate_notes(note_events, ROTATION_TIME)} :
              /\ playback' = <<done>>
              /\ pc' = IF done.returned = "raised" THEN "raised" ELSE "done"
       ELSE /\ playback' = <<>>
            /\ pc' = "done"
    /\ UNCHANGED <<exVars, note_events, layVars, response, exports, sim, helper>>

Next ==
    \/ MainUsageError
    \/ MainExtract
    \/ MainExtractFrame
    \/ ExtractFinish
    \/ MainOracle
    \/ CassetteCAD
    \/ ExportCassette
    \/ ExportSpindle
    \/ \E simulate \in BOOLEAN : Playback(simulate)

Spec == Init /\ [][Next]_vars

(***************************************************************************)
(* extract_notes_from_mp3 called with arguments of the caller's choice.    *)
(***************************************************************************)
\* lengths of the decoded stream, in samples
AudioLens == {frame_size, 2 * frame_size, (MaxFrames + 1) * frame_size}

\* values of max_time, in seconds
MaxTimes == {ROTATION_TIME}

\* values of squeeze_to_duration
SqueezeTargets == {NoFloat, <<FZero>>, <<FDec(2, 1)>>, <<FromInt(5)>>, <<ROTATION_TIME>>}

ExtractInit ==
    /\ pc = "call" /\ note_events = <<>>
    /\ min_note_angle_spacing = derived_angle_spacing /\ Blank

ExtractCall ==
    /\ pc = "call"
    /\ \E rate \in SampleRates, len \in AudioLens, seconds \in MaxTimes,
          target \in SqueezeTargets :
            CallExtract(rate, len, seconds, target)

ExtractLoop ==
    \E pp \in PitchPairs, is_onset \in BOOLEAN :
        /\ is_onset => onsets < MaxOnsets
        /\ ExtractFrame(pp, is_onset)

ExtractNext == ExtractCall \/ ExtractLoop \/ ExtractFinish

ExtractSpec == ExtractInit /\ [][ExtractNext]_vars

(***************************************************************************)
(* The two extractors of the repository, extract_notes_from_mp3 and        *)
(* Cassette._extract_notes_from_mp3, each run on the same audio streams.   *)
(***************************************************************************)
\* values of the field min_note_angle_spacing: the one __init__ derives, and 3 degrees
AngleSpacings == {derived_angle_spacing, FromInt(3)}

\* lines 142-144 and 173: Cassette.__init__ sets the field min_note_angle_spacing
\* and calls the extractor
CassetteExtractCall ==
    /\ pc = "call"
    /\ \E rate \in SampleRates, len \in AudioLens, spacing \in AngleSpacings :
         /\ min_note_angle_spacing' = spacing
         /\ CassetteCallExtract(rate, len)

CassetteExtractLoop ==
    \E pp \in PitchPairs, is_onset \in BOOLEAN :
        /\ is_onset => onsets < MaxOnsets
        /\ CassetteExtractFrame(pp, is_onset)

\* extract_notes_from_mp3 called without squeeze_to_duration
ExtractorsCall ==
    /\ pc = "call"
    /\ \E rate \in SampleRates, len \in AudioLens, seconds \in MaxTimes :
         CallExtract(rate, len, seconds, NoFloat)

ExtractorsNext ==
    \/ ExtractorsCall
    \/ ExtractLoop
    \/ ExtractFinish
    \/ CassetteExtractCall
    \/ CassetteExtractLoop
    \/ CassetteExtractFinish

ExtractorsSpec == ExtractInit /\ [][ExtractorsNext]_vars

(***************************************************************************)
(* The two extractors on three frames of tones in and out of the           *)
(* vocabulary.                                                             *)
(***************************************************************************)
\* what the two pitch detectors return for a frame, in Hz: C4, C#4, B3, F6, F#6
QuantizerPairs == { <<262, 262>>, <<277, 277>>, <<247, 247>>, <<1397, 1397>>, <<1480, 1480>> }

QuantizerNext ==
    \/ /\ pc = "call"
       /\ \E rate \in SampleRates :
            CallExtract(rate, (history_size + 1) * frame_size, ROTATION_TIME, NoFloat)
    \/ /\ pc = "call"
       /\ min_note_angle_spacing' = min_note_angle_spacing
       /\ \E rate \in SampleRates :
            CassetteCallExtract(rate, (history_size + 1) * frame_size)
    \/ \E pp \in QuantizerPairs, is_onset \in BOOLEAN :
            /\ is_onset => onsets < MaxOnsets
            /\ ExtractFrame(pp, is_onset)
    \/ \E pp \in QuantizerPairs, is_onset \in BOOLEAN :
            /\ is_onset => onsets < MaxOnsets
            /\ CassetteExtractFrame(pp, is_onset)
    \/ ExtractFinish
    \/ CassetteExtractFinish

QuantizerSpec == ExtractInit /\ [][QuantizerNext]_vars

(***************************************************************************)
(* cassette.py: Cassette.__init__, lines 142-144 and 173-174: the          *)
(* extraction of the cassette's own events followed by the layout of       *)
(* their pins.                                                             *)
(***************************************************************************)
\* what the two pitch detectors return for a frame, in Hz: C4, A4
CassettePairs == { <<262, 262>>, <<440, 446>> }

CassetteNext ==
    \/ /\ pc = "call"
       /\ \E rate \in SampleRates, spacing \in AngleSpacings :
            /\ min_note_angle_spacing' = spacing
            /\ CassetteCallExtract(rate, (MaxFrames + 3) * frame_size)
    \/ \E pp \in CassettePairs, is_onset \in BOOLEAN :
            /\ is_onset => onsets < MaxOnsets
            /\ CassetteExtractFrame(pp, is_onset)
    \/ CassetteExtractFinish
    \/ LayoutStart
    \/ LayoutStep
    \/ LayoutReturn

CassetteSpec == ExtractInit /\ [][CassetteNext]_vars

(***************************************************************************)
(* cassette.py: Cassette.simulate, one action per iteration of its loop.   *)
(* The clock is read once per iteration; between two readings, through a   *)
(* sleep or a tone that is played, a positive time passes.                 *)
(***************************************************************************)
\* the (time, name) tuples of the cassette's events
SimulateEvents ==
    { <<FZero, "C4">>, <<FromInt(5), "E5">>, <<FromInt(20), "C4">>, <<FromInt(20), "E5">> }

\* the seconds that pass between two readings of time.time()
SimulateDelays == {FromInt(4), FromInt(7)}

\* a built cassette: _note_events as line 351 sorted them
SimulateInit ==
    /\ pc = "built"
    /\ note_events \in {s \in SeqsUpTo(SimulateEvents, MaxSimulateEvents) : SortTuples(s) = s}
    /\ min_note_angle_spacing = derived_angle_spacing
    /\ Blank

\* lines 191-214: the empty guard, or start_time and idx = 0
SimulateStart ==
    /\ pc = "built"
    /\ pc' = IF note_events = <<>> THEN "simulated" ELSE "simulate"
    /\ UNCHANGED <<exVars, note_events, layVars, mainVars>>

\* SimulateIteration without the break of lines 227-228
SimulateIterationNoBreak ==
    /\ pc = "simulate"
    /\ sim.idx < Len(note_events)
    /\ \E elapsed \in {sim.clock}, delay \in SimulateDelays :
         LET note_time == note_events[sim.idx + 1][1]
             is_due    == FGe(elapsed, note_time)
             is_over   == FGt(elapsed, cassette_rotation_seconds)
         IN  /\ sim' = [ idx    |-> IF is_due THEN sim.idx + 1 ELSE sim.idx,
                         clock  |-> FAdd(sim.clock, delay),
                         played |-> IF is_due
                                    THEN Append(sim.played,
                                                [event |-> sim.idx + 1, elapsed |-> elapsed])
                                    ELSE sim.played,
                         over   |-> sim.over \/ is_over ]
             /\ pc' = pc
    /\ UNCHANGED <<exVars, note_events, layVars, response, exports, playback, helper>>

\* lines 216-228: one iteration of `while idx < n`
SimulateIteration ==
    /\ pc = "simulate"
    /\ sim.idx < Len(note_events)
    /\ \E elapsed \in {sim.clock}, delay \in SimulateDelays :
         LET note_time == note_events[sim.idx + 1][1]
             is_due    == FGe(elapsed, note_time)
             is_over   == FGt(elapsed, cassette_rotation_seconds)
         IN  /\ sim' = [ idx    |-> IF is_due THEN sim.idx + 1 ELSE sim.idx,
                         clock  |-> FAdd(sim.clock, delay),
                         played |-> IF is_due
                                    THEN Append(sim.played,
                                                [event |-> sim.idx + 1, elapsed |-> elapsed])
                                    ELSE sim.played,
                         over   |-> sim.over \/ is_over ]
             /\ pc' = IF is_over THEN "simulated" ELSE pc
    /\ UNCHANGED <<exVars, note_events, layVars, response, exports, playback, helper>>

\* line 216: idx = n ends the loop
SimulateExit ==
    /\ pc = "simulate"
    /\ sim.idx >= Len(note_events)
    /\ pc' = "simulated"
    /\ UNCHANGED <<exVars, note_events, layVars, mainVars>>

SimulateNext == SimulateStart \/ SimulateIteration \/ SimulateExit

SimulateSpec == SimulateInit /\ [][SimulateNext]_vars

\* the interpreter goes on running the loop
SimulateLiveSpec == SimulateSpec /\ WF_vars(SimulateNext)

(***************************************************************************)
(* A name of the vocabulary turned into a frequency by one copy of         *)
(* note_to_freq and back into a name by one copy of freq_to_note_name.     *)
(***************************************************************************)
HelpersNext ==
    \/ /\ pc = "call"
       /\ \E note_name \in Range(Notes) :
            \/ \E freq \in note_to_freq(note_name) :
                  helper' = [copy |-> "note_player", note_name |-> note_name,
                             freq |-> freq, name |-> None]
            \/ \E freq \in Cassette_note_to_freq(note_name) :
                  helper' = [copy |-> "Cassette", note_name |-> note_name,
                             freq |-> freq, name |-> None]
       /\ pc' = "note_to_freq"
       /\ UNCHANGED <<exVars, note_events, layVars, response, exports, playback, sim>>
    \/ /\ pc = "note_to_freq"
       /\ \/ helper' = [helper EXCEPT !.copy = "note_extractor",
                                      !.name = freq_to_note_name(helper.freq)]
          \/ helper' = [helper EXCEPT !.copy = "Cassette",
                                      !.name = Cassette_freq_to_note_name(helper.freq)]
       /\ pc' = "freq_to_note_name"
       /\ UNCHANGED <<exVars, note_events, layVars, response, exports, playback, sim>>

HelpersSpec == ExtractInit /\ [][HelpersNext]_vars

(***************************************************************************)
(* The pin layout run on event lists of the caller's choice, more than     *)
(* once on the same cassette.                                              *)
(***************************************************************************)
LayoutEvents ==
    { <<FZero, "C4">>, <<FDec(5, 2), "C4">>, <<FDec(2, 1), "C4">>,
      <<FDec(4, 1), "E5">>, <<ROTATION_TIME, "C4">>, <<FDec(3, 1), "C#4">>,
      <<FDec(5, 2), "E5">> }

LayoutInit ==
    /\ pc = "returned"
    /\ note_events \in SeqsUpTo(LayoutEvents, MaxLayoutEvents)
    /\ min_note_angle_spacing \in AngleSpacings
    /\ Blank

\* the layout is called again on the same events
LayoutAgain ==
    /\ pc = "layout_done"
    /\ run < MaxRuns
    /\ prev_pins' = pins
    /\ pc' = "returned"
    /\ UNCHANGED <<exVars, note_events, min_note_angle_spacing, idx, last_note_angle,
                   pins, run, mainVars>>

LayoutNext == LayoutStart \/ LayoutStep \/ LayoutReturn \/ LayoutAgain

LayoutSpec == LayoutInit /\ [][LayoutNext]_vars
(***************************************************************************)
(* Properties.                                                             *)
(***************************************************************************)
\* x + y as a real number, not rounded to a double
ExactAdd(x, y) ==
    LET e0 == Min2(x.e, y.e)
        sm == BigSignedAdd(x.neg, BigShl(x.m, x.e - e0), y.neg, BigShl(y.m, y.e - e0))
    IN  FCanon(sm[1], sm[2], e0)

\* |x - y| >= gap, in real numbers
ApartBy(x, y, gap) == FGe(FAbs(Eval2(ExactAdd, x, FNeg(y))), gap)

\* positions i < j hold the same name and no position between them does
ConsecutiveSame(names, i, j) ==
    /\ i < j
    /\ names[i] = names[j]
    /\ \A k \in (i + 1)..(j - 1) : names[k] # names[i]

EventNames(events) == [i \in 1..Len(events) |-> events[i][2]]

\* the events are in non-decreasing order of time
TimeSorted(events) ==
    \A i \in 1..(Len(events) - 1) : FLe(events[i][1], events[i + 1][1])

\* C2: in the list the extraction's spacing filter accepted, sorted by time and
\* not yet squeezed, two consecutive events of the same pitch are at least
\* min_time_between_notes apart
C2_TemporalSpacing ==
    pc = "returned" =>
        \A i, j \in 1..Len(sorted_events) :
            ConsecutiveSame(EventNames(sorted_events), i, j) =>
                ApartBy(sorted_events[j][1], sorted_events[i][1], min_time_between_notes)

\* an extraction that accepted two events of one pitch
C2_Witness ==
    /\ pc = "returned"
    /\ Len(sorted_events) = 2
    /\ sorted_events[1][2] = sorted_events[2][2]

\* C4: with squeeze_to_duration = T given, a non-empty list with last time
\* M > 0 comes back with every time equal to time_i * (T / M), the event at M
\* exactly at T and an event at 0 at 0; an empty list or M = 0 comes back as it is
C4_SqueezeFormula ==
    (pc = "returned" /\ squeeze_to_duration # NoFloat) =>
        LET T == squeeze_to_duration[1]
            n == Len(sorted_events)
        IN  IF n > 0 /\ FGt(sorted_events[n][1], FZero)
            THEN /\ Len(note_events) = n
                 /\ \A i \in 1..n :
                      /\ note_events[i][2] = sorted_events[i][2]
                      /\ note_events[i][1] =
                            FMul(sorted_events[i][1], FDiv(T, sorted_events[n][1]))
                      /\ IsZero(sorted_events[i][1]) => IsZero(note_events[i][1])
                 /\ note_events[n][1] = T
            ELSE note_events = sorted_events

\* the pitches of the pins, in order
PinNames == [i \in 1..Len(pins) |-> pins[i].note_name]

\* C3: in the pins of a layout run, two consecutive pins of the same pitch
\* have angles at least min_note_angle_spacing degrees apart
C3_AngularSpacing ==
    \A i, j \in 1..Len(pins) :
        ConsecutiveSame(PinNames, i, j) =>
            ApartBy(pins[j].angle_deg, pins[i].angle_deg, min_note_angle_spacing)

\* a finished run on a time-sorted list that placed two pins of one pitch and
\* dropped an event of that pitch
C3_Witness ==
    /\ pc = "layout_done"
    /\ TimeSorted(note_events)
    /\ Len(note_events) = 3
    /\ \A i \in 1..3 : note_events[i][2] = "C4"
    /\ Len(pins) = 2

\* C7: a run of the layout on the events of the run before gives the same pins
\* in the same order, and every run starts its loop with an empty last-angle map
C7_LayoutDeterminism ==
    /\ (pc = "layout_done" /\ run >= 2) => pins = prev_pins
    /\ (pc = "layout" /\ idx = 1) => last_note_angle = EmptyDict

\* a second run that is over, placed pins and dropped an event
C7_Witness ==
    /\ pc = "layout_done"
    /\ run = 2
    /\ pins # <<>>
    /\ \E i \in 1..Len(note_events) :
         /\ note_events[i][2] \in Range(tine_notes)
         /\ \A k \in 1..Len(pins) : pins[k].angle_deg # AngleDeg(note_events[i][1], cassette_rotation_seconds)

ScenarioA == << <<FZero, "C4">>, <<FDec(5, 2), "C4">>, <<FDec(4, 1), "E5">> >>

\* C8: the layout of [(0.0, C4), (0.05, C4), (0.4, E5)] over a rotation of 20 s
\* is two pins, C4 at 0 degrees in the lane of C4 and E5 at 7.2 degrees in the
\* lane of E5
C8_ScenarioA ==
    (pc = "layout_done" /\ note_events = ScenarioA) =>
        pins = << [angle_deg |-> FZero, note_name |-> "C4", note_index |-> 0,
                   z_pin_center |-> z_pin_center[0]],
                  [angle_deg |-> FDec(72, 1), note_name |-> "E5", note_index |-> 9,
                   z_pin_center |-> z_pin_center[9]] >>

\* the layout of scenario A is over, under a spacing of 3 degrees
C8_Witness ==
    /\ pc = "layout_done"
    /\ note_events = ScenarioA
    /\ min_note_angle_spacing = FromInt(3)
    /\ Len(pins) = 2

\* C9: the pin of an event with 0 <= time <= rotation duration has an angle
\* with 0 <= angle < 360
C9_PinAngleRange ==
    \A k \in 1..Len(pins) :
        FLe(FZero, pins[k].angle_deg) /\ FLt(pins[k].angle_deg, FromInt(360))

\* the duration that bounds the times of the producer's result: the requested
\* one for the oracle, squeeze_to_duration for a squeezed extraction, max_time
\* for an unsqueezed one
ResultDuration ==
    IF response # <<>> THEN ROTATION_TIME
    ELSE IF squeeze_to_duration # NoFloat THEN squeeze_to_duration[1]
    ELSE max_time

\* C1: every event the extractor returns to main, unsqueezed or squeezed, and
\* every event the oracle returns has a pitch of the vocabulary and a time t
\* with 0 <= t <= duration
C1_VocabularyAndRange ==
    pc = "returned" =>
        \A i \in 1..Len(note_events) :
            /\ note_events[i][2] \in Range(Notes)
            /\ FLe(FZero, note_events[i][1])
            /\ FLe(note_events[i][1], ResultDuration)

\* the claim's word for a well-formed entry: a [number, string] pair with a
\* pitch of the vocabulary and a time in [0, duration]
WellFormedEvent(event, duration) ==
    /\ event.kind = "list"
    /\ Len(event.items) = 2
    /\ event.items[1].kind \in {"int", "float"}
    /\ event.items[2].kind = "str"
    /\ event.items[2].str \in Range(Notes)
    /\ FLe(FZero, event.items[1].num)
    /\ FLe(event.items[1].num, duration)

\* the reply is whole, parses, and carries a 'notes' list of well-formed entries
WellFormedReply(reply, duration) ==
    /\ ~reply.raised
    /\ reply.text_ends_brace
    /\ reply.parsed # <<>>
    /\ reply.parsed[1].has_notes
    /\ reply.parsed[1].notes.kind = "list"
    /\ \A i \in 1..Len(reply.parsed[1].notes.items) :
         WellFormedEvent(reply.parsed[1].notes.items[i], duration)

\* C5: get_notes_from_text returns the whole list of a reply that is whole,
\* parses and carries a 'notes' list of well-formed entries, and the empty list
\* for every other reply
C5_OracleFailClosed ==
    response # <<>> =>
        IF WellFormedReply(response[1], ROTATION_TIME)
        THEN note_events = [i \in 1..Len(response[1].parsed[1].notes.items) |->
                                EventPair(response[1].parsed[1].notes.items[i])]
        ELSE note_events = <<>>

\* C6: in a list get_notes_from_text returns, two events of the same pitch
\* whose times are numbers are at least 0.15 s apart
C6_OracleSpacing ==
    response # <<>> =>
        \A i, j \in 1..Len(note_events) :
            ( /\ i < j
              /\ note_events[i][2] = note_events[j][2]
              /\ ~note_events[i][1].nan
              /\ ~note_events[j][1].nan )
            => ApartBy(note_events[i][1], note_events[j][1], min_time_between_notes)

NumericTimes(events) == \A i \in 1..Len(events) : ~events[i][1].nan

\* C11: on both producer paths the list handed to the pin layout, and the list
\* the layout loops over, is in non-decreasing order of time
C11_SortedLayoutInput ==
    (pc \in {"returned", "layout"} /\ NumericTimes(note_events)) =>
        TimeSorted(note_events)

\* the angles of the events of pitch p, in the list's order
AnglesOf(events, p) ==
    LET of_p == SelectSeq(events, LAMBDA ev : ev[2] = p)
    IN  [i \in 1..Len(of_p) |-> AngleDeg(of_p[i][1], cassette_rotation_seconds)]

\* the angles of the pins of pitch p, in the pins' order
PinAnglesOf(p) ==
    LET of_p == SelectSeq(pins, LAMBDA pin : pin.note_name = p)
    IN  [k \in 1..Len(of_p) |-> of_p[k].angle_deg]

\* the angles the greedy rule keeps of a list of angles of one pitch: an angle
\* is kept unless it is less than the spacing from the angle kept last
RECURSIVE KeptAngles(_, _)
KeptAngles(angles, spacing) ==
    IF angles = <<>> THEN <<>>
    ELSE CHOOSE kept \in
            { IF before # <<>>
                 /\ FLt(FAbs(FSub(angles[Len(angles)], before[Len(before)])), spacing)
              THEN before
              ELSE Append(before, angles[Len(angles)]) :
                before \in {KeptAngles(SubSeq(angles, 1, Len(angles) - 1), spacing)} } : TRUE

\* C12: the pins of a vocabulary pitch p are those the greedy rule keeps of the
\* events of pitch p alone, whatever events of other pitches the list holds
C12_NoCrossPitchFiltering ==
    pc = "layout_done" =>
        \A p \in Range(EventNames(note_events)) \cap Range(tine_notes) :
            PinAnglesOf(p) = KeptAngles(AnglesOf(note_events, p), min_note_angle_spacing)

\* a finished run on C4, E5, C4 where the E5 event lies at the angle of the
\* second C4 event, E5 became a pin and the second C4 event did not
C12_Witness ==
    /\ pc = "layout_done"
    /\ note_events = << <<FZero, "C4">>, <<FDec(5, 2), "E5">>, <<FDec(5, 2), "C4">> >>
    /\ PinNames = <<"C4", "E5">>

\* C13: a time-sorted list with a last time > 0, returned under a
\* squeeze_to_duration that was given, holds the same pitches at the same
\* positions, is still in non-decreasing order of time, and has no time below 0
C13_SqueezePreservesOrder ==
    ( /\ pc = "returned"
      /\ squeeze_to_duration # NoFloat
      /\ sorted_events # <<>>
      /\ FGt(sorted_events[Len(sorted_events)][1], FZero) ) =>
        /\ TimeSorted(sorted_events)
        /\ EventNames(note_events) = EventNames(sorted_events)
        /\ TimeSorted(note_events)
        /\ \A i \in 1..Len(note_events) : FLe(FZero, note_events[i][1])

\* an extraction of two events at different times that the squeeze to 5 s moved
C13_Witness ==
    /\ pc = "returned"
    /\ squeeze_to_duration = <<FromInt(5)>>
    /\ Len(sorted_events) = 2
    /\ FLt(sorted_events[1][1], sorted_events[2][1])
    /\ note_events[2][1] # sorted_events[2][1]
    /\ FLt(note_events[1][1], note_events[2][1])

\* the vocabulary of tine.py and of cassette.py: the same 18 distinct names,
\* strictly ascending in frequency, with strictly ascending lanes
VocabularyAscending ==
    /\ tine_notes = Notes
    /\ Len(Notes) = 18
    /\ Cardinality(Range(Notes)) = 18
    /\ total_tines = 18
    /\ \A i \in 1..(Len(Notes) - 1) :
         NoteToFreqTwelfths(Notes[i]) < NoteToFreqTwelfths(Notes[i + 1])
    /\ \A i \in 0..(total_tines - 2) : FLt(z_pin_center[i], z_pin_center[i + 1])

\* C14: the vocabulary holds 18 distinct names in strictly ascending frequency;
\* a pin's lane is the one of its pitch's index in the vocabulary, and of two
\* pins the one of the higher pitch lies in the strictly higher lane
C14_VocabularyOrder ==
    /\ VocabularyAscending
    /\ \A k \in 1..Len(pins) :
         /\ tine_notes[pins[k].note_index + 1] = pins[k].note_name
         /\ pins[k].z_pin_center = z_pin_center[pins[k].note_index]
    /\ \A k, l \in 1..Len(pins) :
         NoteToFreqTwelfths(pins[k].note_name) < NoteToFreqTwelfths(pins[l].note_name)
            => FLt(pins[k].z_pin_center, pins[l].z_pin_center)

\* a finished run that placed a C4 pin and an E5 pin
C14_Witness ==
    /\ pc = "layout_done"
    /\ Range(PinNames) = {"C4", "E5"}

\* a is b with some of its elements left out
RECURSIVE IsSubsequence(_, _)
IsSubsequence(a, b) ==
    IF a = <<>> THEN TRUE
    ELSE IF b = <<>> THEN FALSE
    ELSE IF Head(a) = Head(b) THEN IsSubsequence(Tail(a), Tail(b))
    ELSE IsSubsequence(a, Tail(b))

\* the vocabulary events among the first n of the list, as (angle, pitch)
AngledEvents(n) ==
    LET seen     == SubSeq(note_events, 1, n)
        in_vocab == SelectSeq(seen, LAMBDA ev : ev[2] \in Range(tine_notes))
    IN  [i \in 1..Len(in_vocab) |->
            <<AngleDeg(in_vocab[i][1], cassette_rotation_seconds), in_vocab[i][2]>>]

\* the positions of the pins of pitch p
PinsAt(p) == {k \in 1..Len(pins) : pins[k].note_name = p}

\* the greatest element of a non-empty set of integers
MaxOf(S) == CHOOSE x \in S : \A y \in S : y <= x

\* during and after a run the last-angle map holds, for exactly the pitches
\* that have a pin, the angle of the pitch's last pin; after a run the first
\* event of every vocabulary pitch is that pitch's first pin and the pins are
\* a subsequence of the events (the lists include every prefix of a list, and
\* a run on a prefix is the start of the run on the list)
DedupState ==
    /\ (pc \in {"layout", "layout_done"} /\ note_events # <<>>) =>
          /\ DOMAIN last_note_angle = Range(PinNames)
          /\ \A p \in Range(PinNames) :
               last_note_angle[p] = pins[MaxOf(PinsAt(p))].angle_deg
    /\ pc = "layout_done" =>
          \E met \in {AngledEvents(Len(note_events))} :
            /\ \A i \in 1..Len(met) :
                 (\A j \in 1..(i - 1) : met[j][2] # met[i][2]) =>
                    /\ PinsAt(met[i][2]) # {}
                    /\ pins[CHOOSE k \in PinsAt(met[i][2]) :
                              \A l \in PinsAt(met[i][2]) : k <= l].angle_deg = met[i][1]
            /\ IsSubsequence([k \in 1..Len(pins) |->
                                <<pins[k].angle_deg, pins[k].note_name>>], met)

\* one iteration on an event of a vocabulary pitch p: the event is dropped if
\* and only if p has a pin and the event's angle is less than the spacing from
\* the angle of p's last pin; a dropped event changes neither the pins nor the
\* last-angle map, a kept one becomes the last pin and sets the entry of p alone
DedupStep ==
    (pc = "layout" /\ idx' = idx + 1 /\ note_events[idx][2] \in Range(tine_notes)) =>
        LET p     == note_events[idx][2]
            angle == AngleDeg(note_events[idx][1], cassette_rotation_seconds)
        IN  /\ (pins' = pins) <=>
                    /\ PinsAt(p) # {}
                    /\ ~ApartBy(angle, pins[MaxOf(PinsAt(p))].angle_deg,
                                min_note_angle_spacing)
            /\ pins' = pins => last_note_angle' = last_note_angle
            /\ pins' # pins =>
                    /\ Len(pins') = Len(pins) + 1
                    /\ SubSeq(pins', 1, Len(pins)) = pins
                    /\ pins'[Len(pins')].note_name = p
                    /\ pins'[Len(pins')].angle_deg = angle
                    /\ DOMAIN last_note_angle' = DOMAIN last_note_angle \cup {p}
                    /\ last_note_angle'[p] = angle
                    /\ \A q \in DOMAIN last_note_angle \ {p} :
                         last_note_angle'[q] = last_note_angle[q]

\* C15: the layout drops an event of a vocabulary pitch exactly when it is
\* closer than the spacing to the most recently placed pin of its pitch; the
\* last angle of a pitch changes only when a pin is placed, the first event
\* of a pitch always becomes a pin, and the pins are a subsequence of the events
C15_GreedyDedup == []DedupState /\ [][DedupStep]_vars

\* a finished run on three C4 events under a spacing of 3 degrees: the second
\* is dropped against the first, the third is kept although it is closer than
\* the spacing to the second
C15_Witness ==
    /\ pc = "layout_done"
    /\ min_note_angle_spacing = FromInt(3)
    /\ note_events = << <<FZero, "C4">>, <<FDec(5, 2), "C4">>, <<FDec(2, 1), "C4">> >>
    /\ Len(pins) = 2
    /\ pins[2].angle_deg = AngleDeg(FDec(2, 1), cassette_rotation_seconds)

\* the step is an iteration of the frame loop of one of the two extractors
FrameStep == pc \in {"extract", "cassette_extract"} /\ start_idx' = start_idx + hop_size

\* the quantized candidate of the frame the step analyses, or None
StepCandidate ==
    IF frame'[1].is_onset /\ Len(pitch_history') = history_size
    THEN (IF pc = "extract" THEN Candidate(pitch_history')
          ELSE CassetteCandidate(pitch_history'))
    ELSE None

\* the minimal time between two events of a pitch, of the extractor that runs
StepMinTime ==
    IF pc = "cassette_extract" THEN CassetteMinTime(min_note_angle_spacing)
    ELSE min_time_between_notes

\* the positions of the accepted events of pitch p
EventsAt(p) == {i \in 1..Len(note_events) : note_events[i][2] = p}

\* the last accepted time of every pitch is the time of its last event
LastTimesState ==
    pc \in {"extract", "cassette_extract"} =>
        /\ DOMAIN last_note_time = Range(EventNames(note_events))
        /\ \A p \in DOMAIN last_note_time :
             last_note_time[p] = note_events[MaxOf(EventsAt(p))][1]

\* an iteration with a candidate (frame_time, p): it is appended if and only if
\* p has no accepted event or frame_time minus p's last accepted time is at
\* least the minimal time; accepted, it sets the last accepted time of p alone;
\* rejected, it changes neither the list nor the map and the loop goes on
SpacingStep ==
    FrameStep =>
        \A p \in {StepCandidate} \ {None} :
        \A frame_time \in {FDiv(FromInt(start_idx), FromInt(sr))} :
            LET accept ==
                    \/ EventsAt(p) = {}
                    \/ FGe(FSub(frame_time, note_events[MaxOf(EventsAt(p))][1]),
                           StepMinTime)
            IN  /\ pc' = pc
                /\ accept  => /\ note_events' = Append(note_events, <<frame_time, p>>)
                              /\ DOMAIN last_note_time' = DOMAIN last_note_time \cup {p}
                              /\ last_note_time'[p] = frame_time
                              /\ \A q \in DOMAIN last_note_time \ {p} :
                                   last_note_time'[q] = last_note_time[q]
                /\ ~accept => /\ note_events' = note_events
                              /\ last_note_time' = last_note_time

\* C16: in both extractors a candidate is accepted if and only if its pitch
\* has no accepted event or it comes at least the minimal time after the last
\* accepted event of its pitch; an accepted candidate sets that pitch's last
\* accepted time, a rejected one changes nothing and raises nothing
C16_SpacingAcceptanceRule == []LastTimesState /\ [][SpacingStep]_vars

\* extract_notes_from_mp3 has accepted a C4 event and has just rejected a C4
\* candidate on the frame after it
C16_Witness ==
    /\ pc = "extract"
    /\ frame # <<>>
    /\ frame[1].is_onset
    /\ Len(pitch_history) = history_size
    /\ Candidate(pitch_history) = "C4"
    /\ Len(note_events) = 1
    /\ note_events[1][2] = "C4"
    /\ start_idx = 4 * hop_size
    /\ note_events[1][1] = FDiv(FromInt(2 * hop_size), FromInt(sr))
    /\ last_note_time["C4"] = note_events[1][1]

\* Cassette._extract_notes_from_mp3, its minimal time below 0.192 s, has
\* accepted a second C4 event three frames after the first
CassetteSecondAcceptance ==
    /\ pc = "cassette_extract"
    /\ Len(note_events) = 2
    /\ note_events[1][2] = "C4"
    /\ note_events[2][2] = "C4"

\* the fused estimate of the frame the step analyses, by the extractor that runs
StepFused ==
    IF pc = "extract"
    THEN FusePitch(FromInt(frame'[1].p1), FromInt(frame'[1].p2))
    ELSE CassetteFusePitch(FromInt(frame'[1].p1), FromInt(frame'[1].p2))

\* the last n elements of s, all of s if it has fewer
LastOf(s, n) == SubSeq(s, Max2(1, Len(s) - n + 1), Len(s))

\* the history holds one estimate per analysed frame up to history_size, and
\* no event exists before history_size frames have been analysed
GatingState ==
    pc \in {"extract", "cassette_extract"} =>
        /\ Len(pitch_history) = Min2(start_idx \div hop_size, history_size)
        /\ start_idx \div hop_size < history_size => note_events = <<>>

\* an iteration appends an event only if, on its frame, the history is full,
\* the onset flag is set and the history's standard deviation is below the
\* threshold; the history after it is the fused estimates of the most recent
\* frames, at most history_size, in frame order
GatingStep ==
    FrameStep =>
        /\ note_events' # note_events =>
              /\ Len(pitch_history') = history_size
              /\ frame'[1].is_onset
              /\ StdBelow(pitch_history',
                          IF pc = "extract" THEN pitch_stability_threshold
                          ELSE cassette_stability_threshold)
              /\ start_idx \div hop_size >= history_size - 1
        /\ pitch_history' = LastOf(Append(pitch_history, StepFused), history_size)

\* C17: in both extractors an event is emitted for a frame only when the
\* history is full, the frame's onset flag is set and the history's standard
\* deviation is below the threshold; no event is emitted for the first
\* history_size - 1 frames, and the history holds the most recent fused
\* estimates, never more than history_size, in frame order
C17_ExtractorGating == []GatingState /\ [][GatingStep]_vars

\* extract_notes_from_mp3 has emitted an event on the third frame, the first
\* with a full history, and an event on a later frame with the history rolled
C17_Witness ==
    /\ pc = "extract"
    /\ start_idx > history_size * hop_size
    /\ Len(note_events) = 2
    /\ note_events[1][1] = FDiv(FromInt((history_size - 1) * hop_size), FromInt(sr))
    /\ note_events[2][1] = FDiv(FromInt(start_idx - hop_size), FromInt(sr))
    /\ frame[1].is_onset

\* the claim's fusion holds of a pair and its fused value: the average when
\* the two agree within 50 Hz, else p2 when p1 is zero and p1 when p2 is zero
FusedAsClaimed(p1, p2, fused) ==
    IF FLe(FAbs(FSub(p1, p2)), FromInt(50))
    THEN fused = FDiv(FAdd(p1, p2), FromInt(2))
    ELSE /\ IsZero(p1) => fused = p2
         /\ IsZero(p2) => fused = p1

\* C18: in both extractors the estimate a frame adds to the history is the
\* average of the detectors' pair when they agree within 50 Hz and else the
\* non-zero one of the two, and the two extractors fuse the pair to the same value
C18_PitchFusion ==
    (pc \in {"extract", "cassette_extract"} /\ frame # <<>>) =>
        \E p1 \in {FromInt(frame[1].p1)}, p2 \in {FromInt(frame[1].p2)} :
            /\ FusedAsClaimed(p1, p2, pitch_history[Len(pitch_history)])
            /\ FusePitch(p1, p2) = CassetteFusePitch(p1, p2)

\* C19: when an extractor returns, the frames it analysed (start_idx counts
\* them in hops) are the floor(N / 512) complete frames of its stream of N
\* samples, none of them starting after max_time
C19_FrameCoverage ==
    (pc = "returned" /\ sr > 0) =>
        /\ start_idx \div hop_size = n_samples \div frame_size
        /\ FLe(FDiv(FromInt(Max2(start_idx - hop_size, 0)), FromInt(sr)), max_time)

\* sum(pitch_history) / len(pitch_history) of a history
AvgPitch(h) == FDiv(FSum(h, Len(h)), FromInt(Len(h)))

\* an iteration whose frame has an onset and a full history with an average of
\* zero or below: both freq_to_note_name return None for the average, the
\* event list and the last accepted times stay as they are and the loop goes on
SilenceStep ==
    ( /\ FrameStep
      /\ frame'[1].is_onset
      /\ Len(pitch_history') = history_size
      /\ FLe(AvgPitch(pitch_history'), FZero) ) =>
        /\ freq_to_note_name(AvgPitch(pitch_history')) = None
        /\ Cassette_freq_to_note_name(AvgPitch(pitch_history')) = None
        /\ note_events' = note_events
        /\ last_note_time' = last_note_time
        /\ pc' = pc

\* C20: a frame whose averaged history pitch is zero or negative yields None
\* from freq_to_note_name, no event, no change of the last accepted times and
\* no error, and the loop continues
C20_SilenceIsNotAnError == [][SilenceStep]_vars

\* extract_notes_from_mp3 has accepted an event and has then analysed a frame
\* with an onset on a history of silence, and is still in its loop
C20_Witness ==
    /\ pc = "extract"
    /\ frame # <<>>
    /\ frame[1].is_onset
    /\ Len(pitch_history) = history_size
    /\ \A i \in 1..Len(pitch_history) : IsZero(pitch_history[i])
    /\ Len(note_events) = 1
    /\ DOMAIN last_note_time = {note_events[1][2]}

\* a^24 for a natural number a
BigPow24(a) ==
    CHOOSE out \in
        { BigMul(a12, a12) :
            a12 \in { BigMul(a6, a6) :
                a6 \in { BigMul(a3, a3) :
                    a3 \in { BigMul(BigMul(a, a), a) } } } } : TRUE

\* floor(log2(a / b)) for natural numbers a, b > 0
FloorLog2Ratio(a, b) ==
    LET d  == BigBitLen(a) - BigBitLen(b)
        a2 == IF d < 0 THEN BigShl(a, 0 - d) ELSE a
        b2 == IF d > 0 THEN BigShl(b, d) ELSE b
    IN  IF BigCmp(a2, b2) >= 0 THEN d ELSE d - 1

\* round(69 + 12 * log2(f / 440)) in real numbers, for a double f > 0: 69 + j
\* for the j with 2^(2j - 1) <= (f / 440)^24 < 2^(2j + 1)
ExactSemitone(f) ==
    LET floor_log == CHOOSE l \in
            { FloorLog2Ratio(p, q) :
                p \in {BigPow24(f.m)}, q \in {BigPow24(BigFromInt(440))} } : TRUE
    IN  69 + ((floor_log + 24 * f.e + 1) \div 2)

\* the chromatic name of a semitone number
ChromaticName(semitone) ==
    note_names[(semitone % 12) + 1] \o ToString((semitone \div 12) - 1)

\* the step analyses a frame with an onset whose full history is stable and
\* averages to a frequency above zero
QuantizedStep ==
    /\ FrameStep
    /\ frame'[1].is_onset
    /\ Len(pitch_history') = history_size
    /\ StdBelow(pitch_history',
                IF pc = "extract" THEN pitch_stability_threshold
                ELSE cassette_stability_threshold)
    /\ FGt(AvgPitch(pitch_history'), FZero)

\* on such a step both freq_to_note_name return the chromatic name of the
\* semitone nearest the average; the step appends an event only of that very
\* name and only if it is in the vocabulary, and appends nothing otherwise
QuantizerStep ==
    QuantizedStep =>
        \E name \in {ChromaticName(ExactSemitone(AvgPitch(pitch_history')))} :
            /\ freq_to_note_name(AvgPitch(pitch_history')) = name
            /\ Cassette_freq_to_note_name(AvgPitch(pitch_history')) = name
            /\ name \notin Range(Notes) => note_events' = note_events
            /\ note_events' # note_events =>
                  /\ Len(note_events') = Len(note_events) + 1
                  /\ note_events'[Len(note_events')][2] = name

\* C21: freq_to_note_name of a positive frequency is the chromatic name of the
\* semitone round(69 + 12*log2(f/440)), and a candidate is kept only under
\* that exact name and only if the vocabulary holds it: a sharp, a pitch
\* below C4 or one above F6 is discarded, not snapped to a neighbour
C21_Quantizer == [][QuantizerStep]_vars

\* extract_notes_from_mp3 has analysed an onset frame on a stable history
\* of 277 Hz, which is C#4, and holds no event
C21_Witness ==
    /\ pc = "extract"
    /\ frame # <<>>
    /\ frame[1].is_onset
    /\ pitch_history = <<FromInt(277), FromInt(277), FromInt(277)>>
    /\ freq_to_note_name(FromInt(277)) = "C#4"
    /\ note_events = <<>>

\* the gap between the times of events i and i + 1, as a real number
GapAfter(events, i) == Eval2(ExactAdd, events[i + 1][1], FNeg(events[i][1]))

\* C22: the squeeze multiplies every time by squeeze_to_duration divided by
\* the last time, whatever that quotient is; when the last event lies before
\* the target the factor is above 1 and every gap between consecutive events
\* grows (a gap of zero stays zero)
C22_SqueezeNotClamped ==
    ( /\ pc = "returned"
      /\ Truthy(squeeze_to_duration)
      /\ sorted_events # <<>>
      /\ FGt(sorted_events[Len(sorted_events)][1], FZero) ) =>
        \E scale_factor \in
              {FDiv(squeeze_to_duration[1], sorted_events[Len(sorted_events)][1])} :
            /\ Len(note_events) = Len(sorted_events)
            /\ \A i \in 1..Len(note_events) :
                 note_events[i][1] = FMul(sorted_events[i][1], scale_factor)
            /\ FLt(sorted_events[Len(sorted_events)][1], squeeze_to_duration[1]) =>
                 /\ FGt(scale_factor, FromInt(1))
                 /\ \A i \in 1..(Len(note_events) - 1) :
                      IF FGt(GapAfter(sorted_events, i), FZero)
                      THEN FGt(GapAfter(note_events, i), GapAfter(sorted_events, i))
                      ELSE GapAfter(note_events, i) = FZero

\* an extraction whose last event, at 0.192 s or later, lies before the target
\* of 20 s and whose two events the squeeze moved further apart
C22_Witness ==
    /\ pc = "returned"
    /\ squeeze_to_duration = <<ROTATION_TIME>>
    /\ Len(sorted_events) = 2
    /\ FLt(sorted_events[2][1], FromInt(1))
    /\ FGt(GapAfter(sorted_events, 1), FZero)
    /\ FGt(GapAfter(note_events, 1), FromInt(10))

\* C24: in the list extract_notes_from_mp3 returns, squeezed or not, two
\* consecutive events of the same pitch are at least min_time_between_notes
\* (0.15 s) apart
C24_SpacingSurvivesSqueeze ==
    pc = "returned" =>
        \A i, j \in 1..Len(note_events) :
            ConsecutiveSame(EventNames(note_events), i, j) =>
                ApartBy(note_events[j][1], note_events[i][1], min_time_between_notes)

\* pin k is the pin of event k: its pitch, at the angle of its time
PinOfEvent(k) ==
    /\ pins[k].note_name = note_events[k][2]
    /\ pins[k].angle_deg = AngleDeg(note_events[k][1], cassette_rotation_seconds)

\* C23: for the events Cassette._extract_notes_from_mp3 returned, whose time
\* threshold is min_note_angle_spacing / 360 * 20 s, _generate_pins_from_notes
\* places a pin for every event it has looked at, so the finished layout has
\* as many pins as there are events and pin k is the pin of event k
C23_EveryCassetteEventIsAPin ==
    /\ pc = "layout" => Len(pins) = idx - 1
    /\ pc = "layout_done" =>
         /\ Len(pins) = Len(note_events)
         /\ \A k \in 1..Len(pins) : PinOfEvent(k)

\* a finished layout of two C4 events that the extractor accepted under the
\* spacing __init__ derives
C23_Witness ==
    /\ pc = "layout_done"
    /\ min_note_angle_spacing = derived_angle_spacing
    /\ Len(note_events) = 2
    /\ note_events[1][2] = "C4" /\ note_events[2][2] = "C4"
    /\ Len(pins) = 2

\* the top of a pin whose box of pin_height starts at z, as a real number
LaneTop(z) == Eval2(ExactAdd, z, pin_height)

\* the closed intervals [lo1, hi1] and [lo2, hi2] have no point in common
Disjoint(lo1, hi1, lo2, hi2) == FLt(hi1, lo2) \/ FLt(hi2, lo1)

\* the lanes of all 18 tines: each within the drum body, no two in touch
LanesOfVocabulary ==
    \A i \in 0..(total_tines - 1) :
        /\ FLe(base_ring_height, z_bottom[i])
        /\ FLe(LaneTop(z_bottom[i]),
               Eval2(ExactAdd, base_ring_height, cassette_total_height))
        /\ \A j \in 0..(total_tines - 1) :
             i # j => Disjoint(z_bottom[i], LaneTop(z_bottom[i]),
                               z_bottom[j], LaneTop(z_bottom[j]))

\* C25: the vertical interval [z_bottom, z_bottom + pin_height] of a pin, with
\* z_bottom the one line 402 computes for the index of its pitch, lies within
\* the drum body, from base_ring_height to base_ring_height +
\* cassette_total_height, and the intervals of two pins of distinct pitches
\* do not overlap; so do the lanes of all 18 pitches
C25_DisjointLanes ==
    /\ LanesOfVocabulary
    /\ \A k \in 1..Len(pins) :
         /\ pins[k].note_index = IndexOf(tine_notes, pins[k].note_name)
         /\ FLe(base_ring_height, z_bottom[pins[k].note_index])
         /\ FLe(LaneTop(z_bottom[pins[k].note_index]),
                Eval2(ExactAdd, base_ring_height, cassette_total_height))
         /\ \A l \in 1..Len(pins) :
              pins[k].note_name # pins[l].note_name =>
                  Disjoint(z_bottom[pins[k].note_index], LaneTop(z_bottom[pins[k].note_index]),
                           z_bottom[pins[l].note_index], LaneTop(z_bottom[pins[l].note_index]))

\* a finished layout with a pin of C4 and a pin of E5
C25_Witness ==
    /\ pc = "layout_done"
    /\ \E k, l \in 1..Len(pins) :
         /\ pins[k].note_name = "C4" /\ pins[l].note_name = "E5"
         /\ FLt(z_bottom[pins[k].note_index], z_bottom[pins[l].note_index])

\* the separation of the angles a and b around the drum, min(|a - b|, 360 - |a - b|),
\* as a real number
CircularSeparation(a, b) ==
    LET across == FAbs(Eval2(ExactAdd, a, FNeg(b)))
        around == Eval2(ExactAdd, FromInt(360), FNeg(across))
    IN  IF FLe(across, around) THEN across ELSE around

\* C26: for an input sorted by time with times in [0, rotation_duration], two
\* pins of the same pitch placed by one layout run are at least
\* min_note_angle_spacing apart around the drum, also a pin near 0 degrees and
\* one near 360 degrees
C26_SpacingAroundSeam ==
    ( /\ TimeSorted(note_events)
      /\ \A i \in 1..Len(note_events) :
           /\ FLe(FZero, note_events[i][1])
           /\ FLe(note_events[i][1], cassette_rotation_seconds) ) =>
        \A k, l \in 1..Len(pins) :
            (k # l /\ pins[k].note_name = pins[l].note_name) =>
                FGe(CircularSeparation(pins[k].angle_deg, pins[l].angle_deg),
                    min_note_angle_spacing)

\* the times of the events are strictly increasing
StrictlyIncreasing(events) ==
    \A i \in 1..(Len(events) - 1) : FLt(events[i][1], events[i + 1][1])

\* while a frame loop runs, the list it has built is strictly increasing in time
MonotoneState ==
    pc \in {"extract", "cassette_extract"} => StrictlyIncreasing(note_events)

\* an iteration appends at most one event; the sort after the loop returns the
\* list as the loop built it
MonotoneStep ==
    /\ FrameStep =>
         \/ note_events' = note_events
         \/ /\ Len(note_events') = Len(note_events) + 1
            /\ SubSeq(note_events', 1, Len(note_events)) = note_events
            /\ note_events'[Len(note_events')][1] = FDiv(FromInt(start_idx), FromInt(sr))
    /\ (pc \in {"extract", "cassette_extract"} /\ pc' = "returned") =>
         /\ sorted_events' = note_events
         /\ note_events' = note_events

\* C27: both frame loops append at most one event per frame, at the frame's
\* time, so the list is strictly increasing in time before the sort, and the
\* sort (by time in note_extractor.py, by tuple in cassette.py) leaves it as
\* it is
C27_ExtractorOutputMonotone == []MonotoneState /\ [][MonotoneStep]_vars

\* an extraction that returned two events, the second later than the first
C27_Witness ==
    /\ pc = "returned"
    /\ sr # 0
    /\ Len(sorted_events) = 2
    /\ FLt(sorted_events[1][1], sorted_events[2][1])
    /\ note_events = sorted_events

\* C28: when the oracle has been asked, the names the prompt gives as the
\* bounds of the range, available_notes[0] and available_notes[-1], are the
\* lowest and the highest pitch of the vocabulary, C4 and F6
C28_OracleRequestRange ==
    response # <<>> =>
        /\ available_notes[1] = "C4"
        /\ available_notes[Len(available_notes)] = "F6"
        /\ \A n \in Range(Notes) :
             /\ NoteToFreqTwelfths(available_notes[1]) <= NoteToFreqTwelfths(n)
             /\ NoteToFreqTwelfths(n) <= NoteToFreqTwelfths(available_notes[Len(available_notes)])

\* the events played so far are events 1, 2, ... of the list, each once, in
\* this order, none of them at an elapsed time below its timestamp
PlayedState ==
    /\ Len(sim.played) = sim.idx
    /\ sim.idx <= Len(note_events)
    /\ \A k \in 1..Len(sim.played) :
         /\ sim.played[k].event = k
         /\ FGe(sim.played[k].elapsed, note_events[k][1])

\* once an iteration has seen elapsed > cassette_rotation_seconds nothing is
\* played any more
PlayedStep == sim.over => sim'.played = sim.played

\* the loop has ended: after the last event, or with the rotation time exceeded
SimulateEnded ==
    /\ pc = "simulated"
    /\ sim.idx = Len(note_events) \/ sim.over

\* C29: Cassette.simulate plays the events in the list's order, each at most
\* once and none before the elapsed time has reached its timestamp; no event
\* is played in an iteration that starts after the loop has seen
\* elapsed > cassette_rotation_seconds; and with time advancing between two
\* readings of the clock the loop ends, after the last event or once the
\* rotation time is exceeded
C29_RealTimeLoop == []PlayedState /\ [][PlayedStep]_vars /\ <>SimulateEnded

\* a loop that ended on the break with an event still unplayed, the last event
\* it played being played in the iteration that saw the rotation time exceeded
C29_Witness ==
    /\ pc = "simulated"
    /\ sim.over
    /\ sim.idx < Len(note_events)
    /\ sim.played # <<>>
    /\ FGt(sim.played[Len(sim.played)].elapsed, cassette_rotation_seconds)

\* the sign of x^24 - (440 * 2^(twelfths / 12))^24 for a double x > 0, in
\* real numbers
PowCmp(x, twelfths) ==
    LET d == 24 * x.e - 2 * twelfths
    IN  CHOOSE sign \in
            { BigCmp(IF d >= 0 THEN BigShl(p, d) ELSE p,
                     IF d < 0 THEN BigShl(q, 0 - d) ELSE q) :
                p \in {BigPow24(x.m)}, q \in {BigPow24(BigFromInt(440))} } : TRUE

\* each double of octave4_freqs lies within one unit in the last place of
\* 440 * 2^((semitone_index - 9) / 12)
Octave4Exact ==
    \A semitone_index \in 0..(Len(note_names) - 1) :
        LET freq == octave4_freqs[semitone_index + 1]
            ulp  == [nan |-> FALSE, neg |-> FALSE, m |-> <<1>>,
                     e |-> FloorLog2(freq) - (MantBits - 1)]
        IN  /\ PowCmp(FSub(freq, ulp), semitone_index - 9) <= 0
            /\ PowCmp(FAdd(freq, ulp), semitone_index - 9) >= 0

\* the semitone number 12 * (octave + 1) + semitone_index of a name
SemitoneOf(note_name) == 12 * (ParseNote(note_name)[2] + 1) + ParseNote(note_name)[1]

\* C30: for every pitch n of the vocabulary, note_to_freq(n) is the frequency
\* of semitone 12 * (octave + 1) + semitone_index, whose nearest semitone is
\* that very number, and freq_to_note_name gives n back; the copies of
\* note_to_freq in note_player.py and cassette.py return the same, and so do
\* the copies of freq_to_note_name in note_extractor.py and cassette.py
C30_NameFrequencyRoundTrip ==
    /\ Octave4Exact
    /\ pc \in {"note_to_freq", "freq_to_note_name"} =>
         /\ helper.note_name \in Range(Notes)
         /\ ExactSemitone(helper.freq) = SemitoneOf(helper.note_name)
         /\ ChromaticName(SemitoneOf(helper.note_name)) = helper.note_name
         /\ note_to_freq(helper.note_name) = Cassette_note_to_freq(helper.note_name)
         /\ freq_to_note_name(helper.freq) = Cassette_freq_to_note_name(helper.freq)
    /\ pc = "freq_to_note_name" => helper.name = helper.note_name

\* F6 has gone through Cassette.note_to_freq, which the C library rounded
\* upwards, and back through freq_to_note_name of note_extractor.py
C30_Witness ==
    /\ pc = "freq_to_note_name"
    /\ helper.copy = "note_extractor"
    /\ helper.note_name = "F6"
    /\ helper.name = "F6"
    /\ FGt(helper.freq, FromInt(1396))
    /\ \A freq \in note_to_freq("F6") : FLe(freq, helper.freq)
====
